---- MODULE Spec2Model ----
(***************************************************************************)
(* Model of the XBT <-> DDS converter (src/xbt_dds_converter.py): the      *)
(* format sniffer, the header codec, the XML sidecar codec, the one-file   *)
(* split and join, and the batch orchestrator convert_batch.               *)
(*                                                                         *)
(* Bytes are integers 0..255, byte strings are sequences of bytes, texts   *)
(* are sequences of character codes.  A file is a record: a binary file    *)
(* holds bytes, an XML file holds the parsed shape of its document.        *)
(***************************************************************************)
EXTENDS Integers, Sequences, FiniteSets, TLC

VARIABLES
  fs,                 \* the file system: a function from the paths that exist to files
  unreadable,         \* the paths whose open() raises
  prev,               \* the file system as it was when the run began
  file_path,          \* self.file_path: the file selected for a single conversion
  cin,                \* codec: the input bytes and the sidecar document on hand
  cout,               \* codec: the result of the operations applied to cin
  cpc,                \* codec: which operations have been applied
  conversion_type,    \* self.conversion_type
  overwrite_existing, \* self.overwrite_existing
  fix_dds_format,     \* self.fix_dds_format
  pc,                 \* convert_batch: the position in the run
  files,              \* convert_batch: the sorted list of discovered paths
  xbt_files,          \* convert_batch: the discovered .xbt paths
  dds_files,          \* convert_batch: the discovered .dds paths
  files_to_convert,   \* convert_batch: the list the Convert loop walks
  idx,                \* convert_batch: the loop index i
  converted,          \* convert_batch: counter
  skipped,            \* convert_batch: counter
  errors,             \* convert_batch: counter
  outcomes            \* convert_batch: the outcome of each processed file, in order

single_vars == <<prev, file_path>>
config_vars == <<conversion_type, overwrite_existing, fix_dds_format>>
batch_vars == <<pc, files, xbt_files, dds_files, files_to_convert, idx, converted, skipped, errors, outcomes>>
codec_vars == <<cin, cout, cpc>>
vars == <<fs, unreadable, single_vars, codec_vars, config_vars, batch_vars>>

(***************************************************************************)
(* Bounds of the model.                                                    *)
(***************************************************************************)
MaxHeader == 40
MaxPath == 2
MaxTail == 1
MaxText == 5

(***************************************************************************)
(* Program constants.                                                      *)
(***************************************************************************)
TBX == <<84, 66, 88, 0>>
DDS == <<68, 68, 83, 32>>
MinXbtSize == 16
FixedHeaderSize == 16
HashEnd == 28
SniffLen == 4

(***************************************************************************)
(* Sequence helpers: Python slices and bytes.find.                         *)
(***************************************************************************)
Min(S) == CHOOSE x \in S : \A y \in S : x <= y

\* data[:n]
Take(s, n) == SubSeq(s, 1, IF n < Len(s) THEN n ELSE Len(s))

\* data[n:]
Drop(s, n) == SubSeq(s, n + 1, Len(s))

\* data[a:b]
Slice(s, a, b) == SubSeq(s, a + 1, IF b < Len(s) THEN b ELSE Len(s))

\* data.startswith(pat)
StartsWith(s, pat) == Len(s) >= Len(pat) /\ SubSeq(s, 1, Len(pat)) = pat

\* data.find(pat): 0-based offset of the first occurrence, -1 when absent
Find(s, pat) ==
  LET hits == {k \in 0..(Len(s) - Len(pat)) : SubSeq(s, k + 1, k + Len(pat)) = pat}
  IN  IF hits = {} THEN -1 ELSE Min(hits)

\* struct.unpack('<I', b)[0] for the 4 bytes at 0-based offset off
U32(s, off) == s[off + 1] + 256 * s[off + 2] + 65536 * s[off + 3] + 16777216 * s[off + 4]

(***************************************************************************)
(* Text helpers: str(int), bytes.hex, bytes.fromhex, str.strip, XML chars. *)
(***************************************************************************)
RECURSIVE DecStr(_)
DecStr(n) == IF n < 10 THEN <<48 + n>> ELSE DecStr(n \div 10) \o <<48 + (n % 10)>>

HexDigitChar(n) == IF n < 10 THEN 48 + n ELSE 87 + n

\* bytes.hex(): two lowercase hex digits per byte
RECURSIVE Hex(_)
Hex(b) ==
  IF b = <<>> THEN <<>>
  ELSE <<HexDigitChar(Head(b) \div 16), HexDigitChar(Head(b) % 16)>> \o Hex(Tail(b))

\* value of a hex digit character, -1 for any other character
HexVal(c) ==
  IF c \in 48..57 THEN c - 48
  ELSE IF c \in 97..102 THEN c - 87
  ELSE IF c \in 65..70 THEN c - 55
  ELSE -1

\* Py_ISSPACE, the whitespace bytes.fromhex skips
IsSpace(c) == c \in {9, 10, 11, 12, 13, 32}

\* str.isspace for ASCII, the whitespace str.strip removes
IsStrWhitespace(c) == c \in {9, 10, 11, 12, 13, 28, 29, 30, 31, 32}

RECURSIVE LStrip(_)
LStrip(t) == IF t # <<>> /\ IsStrWhitespace(Head(t)) THEN LStrip(Tail(t)) ELSE t

RECURSIVE RStrip(_)
RStrip(t) ==
  IF t # <<>> /\ IsStrWhitespace(t[Len(t)]) THEN RStrip(SubSeq(t, 1, Len(t) - 1)) ELSE t

\* str.strip()
Strip(t) == RStrip(LStrip(t))

RECURSIVE SkipSpace(_)
SkipSpace(t) == IF t # <<>> /\ IsSpace(Head(t)) THEN SkipSpace(Tail(t)) ELSE t

\* bytes.fromhex(text): whitespace before a byte pair is skipped, then two
\* hex digits are required; the result is [ok, bytes]
RECURSIVE FromHex(_)
FromHex(t) ==
  LET u == SkipSpace(t)
  IN  IF u = <<>> THEN [ok |-> TRUE, bytes |-> <<>>]
      ELSE IF Len(u) < 2 \/ HexVal(u[1]) < 0 \/ HexVal(u[2]) < 0
           THEN [ok |-> FALSE, bytes |-> <<>>]
           ELSE LET rest == FromHex(Drop(u, 2))
                IN  [ok |-> rest.ok,
                     bytes |-> IF rest.ok
                               THEN <<16 * HexVal(u[1]) + HexVal(u[2])>> \o rest.bytes
                               ELSE <<>>]

\* a character the XML parser (expat, XML 1.0) accepts in text
XmlChar(c) == c \in {9, 10, 13} \/ c >= 32

XmlText(t) == \A k \in 1..Len(t) : XmlChar(t[k])

\* bytes.decode('ascii', errors='ignore')
DecodeAsciiIgnore(b) == SelectSeq(b, LAMBDA x : x < 128)

(***************************************************************************)
(* Sidecar documents.  meta is the Metadata element: a function from the   *)
(* names of its children to their text.                                    *)
(***************************************************************************)
NoMeta == [n \in {} |-> <<>>]

EmptyDoc ==
  [wellformed |-> FALSE, tag |-> "", hasMeta |-> FALSE, meta |-> NoMeta,
   hasRaw |-> FALSE, raw |-> <<>>]

\* "XBT-DDS Converter"
CreatedBy == <<88, 66, 84, 45, 68, 68, 83, 32, 67, 111, 110, 118, 101, 114, 116, 101, 114>>

(***************************************************************************)
(* detect_file_type on the bytes of a readable file: f.read(4) compared    *)
(* with the two magics.                                                    *)
(***************************************************************************)
\* faulty variant: the whole file is compared with the magics, not its first 4 bytes
Sniff_WholeFile(data) ==
  IF data = TBX THEN "xbt"
  ELSE IF data = DDS THEN "dds"
  ELSE "unknown"

Sniff(data) ==
  LET header == Take(data, SniffLen)
  IN  IF header = TBX THEN "xbt"
      ELSE IF header = DDS THEN "dds"
      ELSE "unknown"

(***************************************************************************)
(* parse_xbt_header: [ok, dds_start, header_data].                         *)
(***************************************************************************)
\* faulty variant: the magic at offset 0 is not looked at
parse_xbt_header_NoMagicCheck(data) ==
  IF Len(data) < MinXbtSize THEN [ok |-> FALSE, err |-> "too_small", dds_start |-> -1, header_data |-> <<>>]
  ELSE LET dds_start == Find(data, DDS)
       IN  IF dds_start = -1
           THEN [ok |-> FALSE, err |-> "no_dds", dds_start |-> -1, header_data |-> <<>>]
           ELSE [ok |-> TRUE, err |-> "", dds_start |-> dds_start, header_data |-> Take(data, dds_start)]

\* faulty variant: the header ends at the last payload magic of the file, not at
\* the first
parse_xbt_header_LastMagic(data) ==
  IF Len(data) < MinXbtSize THEN [ok |-> FALSE, err |-> "too_small", dds_start |-> -1, header_data |-> <<>>]
  ELSE IF Take(data, 4) # TBX THEN [ok |-> FALSE, err |-> "invalid_signature", dds_start |-> -1, header_data |-> <<>>]
  ELSE LET hits == {k \in 0..(Len(data) - 4) : SubSeq(data, k + 1, k + 4) = DDS}
       IN  IF hits = {}
           THEN [ok |-> FALSE, err |-> "no_dds", dds_start |-> -1, header_data |-> <<>>]
           ELSE LET dds_start == CHOOSE k \in hits : \A j \in hits : j <= k
                IN  [ok |-> TRUE, err |-> "", dds_start |-> dds_start,
                     header_data |-> Take(data, dds_start)]

\* faulty variant: the declared header size must be the offset of the payload
parse_xbt_header_CheckDeclared(data) ==
  IF Len(data) < MinXbtSize THEN [ok |-> FALSE, err |-> "too_small", dds_start |-> -1, header_data |-> <<>>]
  ELSE IF Take(data, 4) # TBX THEN [ok |-> FALSE, err |-> "invalid_signature", dds_start |-> -1, header_data |-> <<>>]
  ELSE LET dds_start == Find(data, DDS)
       IN  IF dds_start = -1
           THEN [ok |-> FALSE, err |-> "no_dds", dds_start |-> -1, header_data |-> <<>>]
           ELSE IF U32(data, 8) # dds_start
           THEN [ok |-> FALSE, err |-> "size_mismatch", dds_start |-> -1, header_data |-> <<>>]
           ELSE [ok |-> TRUE, err |-> "", dds_start |-> dds_start, header_data |-> Take(data, dds_start)]

parse_xbt_header(data) ==
  IF Len(data) < MinXbtSize THEN [ok |-> FALSE, err |-> "too_small", dds_start |-> -1, header_data |-> <<>>]
  ELSE IF Take(data, 4) # TBX THEN [ok |-> FALSE, err |-> "invalid_signature", dds_start |-> -1, header_data |-> <<>>]
  ELSE LET dds_start == Find(data, DDS)
       IN  IF dds_start = -1
           THEN [ok |-> FALSE, err |-> "no_dds", dds_start |-> -1, header_data |-> <<>>]
           ELSE [ok |-> TRUE, err |-> "", dds_start |-> dds_start, header_data |-> Take(data, dds_start)]

(***************************************************************************)
(* save_header_to_xml: the Metadata children built from the header, then   *)
(* the document; minidom.parseString rejects the serialized document when  *)
(* a text holds a character that is not an XML character.                  *)
(***************************************************************************)
EmbeddedPathOf(header_data) ==
  LET path_data == Drop(header_data, HashEnd)
      null_pos == Find(path_data, <<0>>)
  IN  IF Len(header_data) > HashEnd /\ null_pos > 0
      THEN DecodeAsciiIgnore(Take(path_data, null_pos))
      ELSE <<>>

HasEmbeddedPath(header_data) == Strip(EmbeddedPathOf(header_data)) # <<>>

MetadataOf(header_data) ==
  ("HeaderSize" :> DecStr(Len(header_data)))
  @@ ("CreatedBy" :> CreatedBy)
  @@ (IF Len(header_data) >= FixedHeaderSize
      THEN ("Signature" :> Hex(Take(header_data, 4)))
           @@ ("Unknown1" :> DecStr(U32(header_data, 4)))
           @@ ("StoredHeaderSize" :> DecStr(U32(header_data, 8)))
           @@ ("Unknown2" :> DecStr(U32(header_data, 12)))
           @@ (IF Len(header_data) >= HashEnd
               THEN ("HashBytes" :> Hex(Slice(header_data, 16, HashEnd)))
               ELSE NoMeta)
           @@ (IF HasEmbeddedPath(header_data)
               THEN ("EmbeddedPath" :> EmbeddedPathOf(header_data))
               ELSE NoMeta)
      ELSE NoMeta)

save_header_to_xml(header_data) ==
  LET meta == MetadataOf(header_data)
      doc == [wellformed |-> TRUE, tag |-> "XBTHeader", hasMeta |-> TRUE, meta |-> meta,
              hasRaw |-> TRUE, raw |-> Hex(header_data)]
  IN  IF \A n \in DOMAIN meta : XmlText(meta[n])
      THEN [ok |-> TRUE, doc |-> doc]
      ELSE [ok |-> FALSE, doc |-> EmptyDoc]

(***************************************************************************)
(* load_header_from_xml on an existing document: [ok, header_data]; a      *)
(* None result is ok = FALSE.                                              *)
(***************************************************************************)
\* faulty variant: the raw text is cleaned of everything but whole pairs of hex digits
\* before it is decoded
load_header_from_xml_Lenient(doc) ==
  IF ~doc.wellformed THEN [ok |-> FALSE, header_data |-> <<>>]
  ELSE IF doc.tag # "XBTHeader" THEN [ok |-> FALSE, header_data |-> <<>>]
  ELSE IF ~doc.hasRaw \/ doc.raw = <<>> THEN [ok |-> FALSE, header_data |-> <<>>]
  ELSE LET digits == SelectSeq(doc.raw, LAMBDA c : HexVal(c) >= 0)
           h == FromHex(Take(digits, 2 * (Len(digits) \div 2)))
       IN  [ok |-> h.ok, header_data |-> h.bytes]

\* faulty variant: the HeaderSize field of the Metadata block must be the
\* length of the decoded header
load_header_from_xml_NeedsMeta(doc) ==
  IF ~doc.wellformed THEN [ok |-> FALSE, header_data |-> <<>>]
  ELSE IF doc.tag # "XBTHeader" THEN [ok |-> FALSE, header_data |-> <<>>]
  ELSE IF ~doc.hasRaw \/ doc.raw = <<>> THEN [ok |-> FALSE, header_data |-> <<>>]
  ELSE LET h == FromHex(Strip(doc.raw))
       IN  IF /\ h.ok /\ doc.hasMeta /\ "HeaderSize" \in DOMAIN doc.meta
              /\ doc.meta["HeaderSize"] = DecStr(Len(h.bytes))
           THEN [ok |-> TRUE, header_data |-> h.bytes]
           ELSE [ok |-> FALSE, header_data |-> <<>>]

load_header_from_xml(doc) ==
  IF ~doc.wellformed THEN [ok |-> FALSE, header_data |-> <<>>]
  ELSE IF doc.tag # "XBTHeader" THEN [ok |-> FALSE, header_data |-> <<>>]
  ELSE IF ~doc.hasRaw \/ doc.raw = <<>> THEN [ok |-> FALSE, header_data |-> <<>>]
  ELSE LET h == FromHex(Strip(doc.raw))
       IN  [ok |-> h.ok, header_data |-> h.bytes]

(***************************************************************************)
(* Files and paths.  A path is [dir, base, ext]; os.path.splitext(p)[0] +  *)
(* e is the path with ext replaced by e.                                   *)
(***************************************************************************)
BinFile(data) == [kind |-> "bin", data |-> data, doc |-> EmptyDoc]

XmlFile(doc) == [kind |-> "xml", data |-> <<>>, doc |-> doc]

\* "<?xml", the first bytes of a serialized document
XmlProlog == <<60, 63, 120, 109, 108>>

\* open(p, 'rb').read()
Bytes(f) == IF f.kind = "bin" THEN f.data ELSE XmlProlog

\* ET.parse(p): a binary file is not a well-formed document
DocOf(f) == IF f.kind = "xml" THEN f.doc ELSE EmptyDoc

Exists(f, p) == p \in DOMAIN f

Readable(f, p) == p \in DOMAIN f /\ p \notin unreadable

\* open(p, 'w').write(c)
Write(f, p, c) == [q \in (DOMAIN f) \cup {p} |-> IF q = p THEN c ELSE f[q]]

WithExt(p, e) == [p EXCEPT !.ext = e]

ConversionTypes == {"auto", "xbt_to_dds", "dds_to_xbt"}

(***************************************************************************)
(* detect_file_type: any exception while opening or reading gives          *)
(* 'unknown'.                                                              *)
(***************************************************************************)
\* faulty variant: the type is read off the extension of the name
detect_file_type_ByExtension(f, filepath) ==
  IF filepath.ext \in {".xbt", ".XBT"} THEN "xbt"
  ELSE IF filepath.ext = ".dds" THEN "dds"
  ELSE "unknown"

detect_file_type(f, filepath) ==
  IF ~Readable(f, filepath) THEN "unknown" ELSE Sniff(Bytes(f[filepath]))

(***************************************************************************)
(* The outcome of the optional normalization step of a join: whether       *)
(* find_texconv found the tool (the fallback runs when it did not), and    *)
(* the bytes of the fixed file or no fixed file (the step failed).         *)
(***************************************************************************)
NoFix == [texconv |-> FALSE, fixed |-> FALSE, data |-> <<>>]

NormOutcomes ==
  {[texconv |-> t, fixed |-> FALSE, data |-> <<>>] : t \in BOOLEAN}
  \cup {[texconv |-> t, fixed |-> TRUE, data |-> d] : t \in BOOLEAN, d \in {DDS \o <<200>>, <<200>>}}

(***************************************************************************)
(* The split of xbt_to_dds and xbt_to_dds_batch between the read of the    *)
(* input and the write of the outputs: [ok, err, header_data, dds_data,    *)
(* doc].                                                                   *)
(***************************************************************************)
SplitFailed(err, header_data) ==
  [ok |-> FALSE, err |-> err, header_data |-> header_data, dds_data |-> <<>>, doc |-> EmptyDoc]

split_container(data) ==
  LET parsed == parse_xbt_header(data)
      saved == save_header_to_xml(parsed.header_data)
  IN  IF ~parsed.ok THEN SplitFailed(parsed.err, <<>>)
      ELSE IF ~saved.ok THEN SplitFailed("save_failed", parsed.header_data)
      ELSE [ok |-> TRUE, err |-> "", header_data |-> parsed.header_data,
            dds_data |-> Drop(data, parsed.dds_start), doc |-> saved.doc]

(***************************************************************************)
(* The join of dds_to_xbt between the read of the payload and the write of *)
(* the output: loaded is the result of load_header_from_xml.               *)
(***************************************************************************)
\* faulty variant: the payload is written without its magic
join_container_DropMagic(dds_data, loaded) ==
  IF ~StartsWith(dds_data, DDS) THEN [ok |-> FALSE, err |-> "invalid_dds", out |-> <<>>]
  ELSE IF ~loaded.ok \/ loaded.header_data = <<>>
       THEN [ok |-> FALSE, err |-> "no_header", out |-> <<>>]
       ELSE [ok |-> TRUE, err |-> "", out |-> loaded.header_data \o Drop(dds_data, 4)]

join_container(dds_data, loaded) ==
  IF ~StartsWith(dds_data, DDS) THEN [ok |-> FALSE, err |-> "invalid_dds", out |-> <<>>]
  ELSE IF ~loaded.ok \/ loaded.header_data = <<>>
       THEN [ok |-> FALSE, err |-> "no_header", out |-> <<>>]
       ELSE [ok |-> TRUE, err |-> "", out |-> loaded.header_data \o dds_data]

(***************************************************************************)
(* xbt_to_dds_batch and xbt_to_dds: [ok, fs].                              *)
(***************************************************************************)
\* faulty variant: the sidecar is written next to the input, not at the path
\* given for it
xbt_to_dds_batch_SidecarNextToInput(f, input_path, output_path, xml_output_path) ==
  IF ~Readable(f, input_path) THEN [ok |-> FALSE, fs |-> f]
  ELSE LET r == split_container(Bytes(f[input_path]))
       IN  IF ~r.ok THEN [ok |-> FALSE, fs |-> f]
           ELSE [ok |-> TRUE,
                 fs |-> Write(Write(f, WithExt(input_path, ".xml"), XmlFile(r.doc)),
                              output_path, BinFile(r.dds_data))]

xbt_to_dds_batch(f, input_path, output_path, xml_output_path) ==
  IF ~Readable(f, input_path) THEN [ok |-> FALSE, fs |-> f]
  ELSE LET r == split_container(Bytes(f[input_path]))
       IN  IF ~r.ok THEN [ok |-> FALSE, fs |-> f]
           ELSE [ok |-> TRUE,
                 fs |-> Write(Write(f, xml_output_path, XmlFile(r.doc)),
                              output_path, BinFile(r.dds_data))]

xbt_to_dds(f, input_path, output_path) ==
  xbt_to_dds_batch(f, input_path, output_path, WithExt(output_path, ".xml"))

(***************************************************************************)
(* dds_to_xbt: [ok, fs].  norm is the outcome of the normalization step,   *)
(* used only when fix_dds_format is set.                                   *)
(***************************************************************************)
LoadSidecar(f, xml_path) ==
  IF Readable(f, xml_path)
  THEN load_header_from_xml(DocOf(f[xml_path]))
  ELSE [ok |-> FALSE, header_data |-> <<>>]

\* faulty variant: the join depends on the normalization step and fails when the
\* step gives no fixed file
dds_to_xbt_NormRequired(f, input_path, output_path, fix, norm) ==
  LET xml_path == WithExt(input_path, ".xml")
  IN  IF ~Readable(f, input_path) \/ (fix /\ ~norm.fixed) THEN [ok |-> FALSE, fs |-> f]
      ELSE LET dds_data == IF fix THEN norm.data ELSE Bytes(f[input_path])
               r == join_container(dds_data, LoadSidecar(f, xml_path))
           IN  IF ~r.ok THEN [ok |-> FALSE, fs |-> f]
               ELSE [ok |-> TRUE, fs |-> Write(f, output_path, BinFile(r.out))]

\* faulty variant: the output file is opened for writing before the payload and
\* the sidecar are looked at
dds_to_xbt_OutputOpenedFirst(f, input_path, output_path, fix, norm) ==
  LET use_fixed == fix /\ norm.fixed /\ Readable(f, input_path)
      xml_path == WithExt(input_path, ".xml")
      opened == Write(f, output_path, BinFile(<<>>))
  IN  IF ~Readable(f, input_path) THEN [ok |-> FALSE, fs |-> f]
      ELSE LET dds_data == IF use_fixed THEN norm.data ELSE Bytes(f[input_path])
               r == join_container(dds_data, LoadSidecar(f, xml_path))
           IN  IF ~r.ok THEN [ok |-> FALSE, fs |-> opened]
               ELSE [ok |-> TRUE, fs |-> Write(f, output_path, BinFile(r.out))]

dds_to_xbt(f, input_path, output_path, fix, norm) ==
  LET use_fixed == fix /\ norm.fixed /\ Readable(f, input_path)
      xml_path == WithExt(input_path, ".xml")
  IN  IF ~Readable(f, input_path) THEN [ok |-> FALSE, fs |-> f]
      ELSE LET dds_data == IF use_fixed THEN norm.data ELSE Bytes(f[input_path])
               r == join_container(dds_data, LoadSidecar(f, xml_path))
           IN  IF ~r.ok THEN [ok |-> FALSE, fs |-> f]
               ELSE [ok |-> TRUE, fs |-> Write(f, output_path, BinFile(r.out))]

(***************************************************************************)
(* check_conversion_requirements.                                          *)
(***************************************************************************)
\* faulty variant: the sidecar is not looked for before the conversion
check_conversion_requirements_NoCheck(f, input_path, ct) == TRUE

check_conversion_requirements(f, input_path, ct) ==
  IF ct = "dds_to_xbt" THEN Exists(f, WithExt(input_path, ".xml")) ELSE TRUE

(***************************************************************************)
(* convert_single_file: [op, ok, fs]; op is the resolved direction,        *)
(* "undetected" when auto detection raises.                                *)
(***************************************************************************)
\* faulty variant: the direction is not detected, Auto is taken as a split
convert_single_file_NoDetect(f, input_path, ct, fix, norm) ==
  IF ct \in {"auto", "xbt_to_dds"}
  THEN LET r == xbt_to_dds(f, input_path, WithExt(input_path, ".dds"))
       IN  [op |-> "xbt_to_dds", ok |-> r.ok, fs |-> r.fs]
  ELSE LET r == dds_to_xbt(f, input_path, WithExt(input_path, ".xbt"), fix, norm)
       IN  [op |-> "dds_to_xbt", ok |-> r.ok, fs |-> r.fs]

\* faulty variant: the two output extensions are swapped, a split writes .xbt
\* and a join writes .dds
convert_single_file_SwappedExt(f, input_path, ct, fix, norm) ==
  LET file_type == detect_file_type(f, input_path)
      resolved == IF ct # "auto" THEN ct
                  ELSE IF file_type = "xbt" THEN "xbt_to_dds"
                  ELSE IF file_type = "dds" THEN "dds_to_xbt"
                  ELSE "undetected"
  IN  IF resolved = "undetected" THEN [op |-> resolved, ok |-> FALSE, fs |-> f]
      ELSE IF resolved = "xbt_to_dds"
           THEN LET r == xbt_to_dds(f, input_path, WithExt(input_path, ".xbt"))
                IN  [op |-> resolved, ok |-> r.ok, fs |-> r.fs]
           ELSE LET r == dds_to_xbt(f, input_path, WithExt(input_path, ".dds"), fix, norm)
                IN  [op |-> resolved, ok |-> r.ok, fs |-> r.fs]

convert_single_file(f, input_path, ct, fix, norm) ==
  LET file_type == detect_file_type(f, input_path)
      resolved == IF ct # "auto" THEN ct
                  ELSE IF file_type = "xbt" THEN "xbt_to_dds"
                  ELSE IF file_type = "dds" THEN "dds_to_xbt"
                  ELSE "undetected"
  IN  IF resolved = "undetected" THEN [op |-> resolved, ok |-> FALSE, fs |-> f]
      ELSE IF resolved = "xbt_to_dds"
           THEN LET r == xbt_to_dds(f, input_path, WithExt(input_path, ".dds"))
                IN  [op |-> resolved, ok |-> r.ok, fs |-> r.fs]
           ELSE LET r == dds_to_xbt(f, input_path, WithExt(input_path, ".xbt"), fix, norm)
                IN  [op |-> resolved, ok |-> r.ok, fs |-> r.fs]

(***************************************************************************)
(* Inputs.  A wrapped container is the first N bytes of a header template  *)
(* (magic, three u32 fields, 12 hash bytes, a path region) followed by a   *)
(* payload: the payload magic and a tail.                                  *)
(***************************************************************************)
Zeros(n) == [k \in 1..n |-> 0]

RECURSIVE SeqsUpTo(_, _)
SeqsUpTo(S, n) ==
  IF n = 0 THEN {<<>>}
  ELSE LET shorter == SeqsUpTo(S, n - 1)
       IN  shorter \cup {Append(t, x) : t \in {u \in shorter : Len(u) = n - 1}, x \in S}

FieldPatterns == {<<1, 0, 0, 0, 32, 0, 0, 0, 2, 0, 0, 0>>, <<1, 0, 0, 0, 99, 0, 0, 0, 2, 0, 0, 0>>}

HashPatterns ==
  {<<11, 12, 13, 14, 15, 16, 17, 18, 19, 20, 21, 22>>,
   <<11, 12, 68, 68, 83, 32, 17, 18, 19, 20, 21, 22>>}

\* NUL, a control character, space, 'A', a non-ASCII byte
PathBytes == {0, 1, 32, 65, 255}

PathRegions == SeqsUpTo(PathBytes, MaxPath)

HeaderTemplate(fields, hash, path) ==
  TBX \o fields \o hash \o path \o Zeros(MaxHeader - HashEnd - Len(path))

DefaultFields == <<1, 0, 0, 0, 32, 0, 0, 0, 2, 0, 0, 0>>

DefaultHash == <<11, 12, 13, 14, 15, 16, 17, 18, 19, 20, 21, 22>>

\* every header length with every field and hash pattern, and every path
\* region with every header length that reaches it
Headers ==
  {Take(HeaderTemplate(fl, h, <<>>), n) :
     fl \in FieldPatterns, h \in HashPatterns, n \in 4..MaxHeader}
  \cup {Take(HeaderTemplate(DefaultFields, DefaultHash, p), n) :
          p \in PathRegions, n \in (HashEnd + 1)..MaxHeader}

PayloadTail(k) == [j \in 1..k |-> 100 + j]

Payloads == {DDS \o PayloadTail(k) : k \in 0..MaxTail}

Containers == {h \o p : h \in Headers, p \in Payloads}

\* inputs that are no wrapped container: junk, a bare magic, a wrapper
\* without payload, payloads
OtherInputs ==
  {<<>>, <<1, 2, 3>>, <<68, 68, 83>>, TBX, TBX \o Zeros(12), Zeros(MinXbtSize),
   DDS \o Zeros(MinXbtSize), <<84, 66, 88, 1>> \o Zeros(12) \o DDS}
  \cup Payloads

\* '5', 'a', space, 'g'
TextChars == {53, 97, 32, 103}

\* "A5", and "55" between a tab and a newline
ExtraTexts == {<<65, 53>>, <<9, 53, 53, 10>>}

Texts == SeqsUpTo(TextChars, MaxText) \cup ExtraTexts

RawDoc(t) ==
  [wellformed |-> TRUE, tag |-> "XBTHeader", hasMeta |-> FALSE, meta |-> NoMeta,
   hasRaw |-> TRUE, raw |-> t]

\* documents that differ from a plain sidecar in shape: not well-formed,
\* another root tag, no RawHeaderData child, a Metadata block with junk
ShapedDocs ==
  {[RawDoc(t) EXCEPT !.wellformed = FALSE] : t \in {<<>>, <<53, 97>>}}
  \cup {[RawDoc(t) EXCEPT !.tag = "Other"] : t \in {<<53, 97>>}}
  \cup {[RawDoc(t) EXCEPT !.hasRaw = FALSE, !.raw = <<>>] : t \in {<<>>}}
  \cup {[RawDoc(t) EXCEPT !.hasMeta = TRUE, !.meta = ("HeaderSize" :> <<103>>)] :
          t \in {<<53, 97>>, <<53>>}}
  \cup {[RawDoc(t) EXCEPT !.hasMeta = TRUE, !.meta = m] :
          t \in {<<53, 97>>, <<53, 103>>},
          m \in {NoMeta, "HeaderSize" :> <<57, 57>>, "EmbeddedPath" :> <<>>}}

GivenDocs == {RawDoc(t) : t \in Texts} \cup ShapedDocs

JoinPayloads == Payloads \cup {<<68, 68, 83>>, <<>>}

NoFiles == [q \in {} |-> BinFile(<<>>)]

NoPath == [dir |-> "", base |-> "", ext |-> ""]

IdleBatch ==
  /\ pc = "idle"
  /\ files = <<>>
  /\ xbt_files = <<>>
  /\ dds_files = <<>>
  /\ files_to_convert = <<>>
  /\ idx = 0
  /\ converted = 0
  /\ skipped = 0
  /\ errors = 0
  /\ outcomes = <<>>

DefaultConfig ==
  /\ conversion_type = "auto"
  /\ overwrite_existing = FALSE
  /\ fix_dds_format = FALSE

NoResult ==
  [op |-> "none", ok |-> FALSE, err |-> "", class |-> "", header_data |-> <<>>,
   dds_data |-> <<>>, doc |-> EmptyDoc, loaded |-> <<>>, out |-> <<>>, payload |-> <<>>]

NoInput == [data |-> <<>>, doc |-> EmptyDoc]

IdleCodec ==
  /\ cin = NoInput
  /\ cout = NoResult
  /\ cpc = "idle"

(***************************************************************************)
(* The codec on bytes in memory: the input is a byte string and a sidecar  *)
(* document; each action applies one operation of the codec to it.         *)
(***************************************************************************)
MainPayload == DDS \o PayloadTail(MaxTail)

CodecInputs ==
  {[data |-> x, doc |-> EmptyDoc] : x \in Containers \cup OtherInputs}
  \cup {[data |-> MainPayload, doc |-> d] : d \in GivenDocs}
  \cup {[data |-> p, doc |-> RawDoc(t)] : p \in JoinPayloads, t \in {<<53, 97>>, <<53>>}}

InitCodec ==
  /\ cin \in CodecInputs
  /\ cout = NoResult
  /\ cpc = "start"
  /\ fs = NoFiles
  /\ unreadable = {}
  /\ prev = NoFiles
  /\ file_path = NoPath
  /\ DefaultConfig
  /\ IdleBatch

\* detect_file_type on the bytes read
CodecClassify ==
  /\ cpc = "start"
  /\ cout' = [NoResult EXCEPT !.op = "classify", !.ok = TRUE, !.class = Sniff(cin.data)]
  /\ cpc' = "done"
  /\ UNCHANGED <<cin, fs, unreadable, single_vars, config_vars, batch_vars>>

\* the split of xbt_to_dds
CodecSplit ==
  /\ cpc = "start"
  /\ LET r == split_container(cin.data)
     IN  cout' = [NoResult EXCEPT !.op = "split", !.ok = r.ok, !.err = r.err,
                                  !.header_data = r.header_data, !.dds_data = r.dds_data,
                                  !.doc = r.doc]
  /\ cpc' = "split"
  /\ UNCHANGED <<cin, fs, unreadable, single_vars, config_vars, batch_vars>>

\* load_header_from_xml on the document the split wrote
CodecReadBack ==
  /\ cpc = "split"
  /\ cout.ok
  /\ LET l == load_header_from_xml(cout.doc)
     IN  cout' = [cout EXCEPT !.op = "readback", !.ok = l.ok, !.loaded = l.header_data]
  /\ cpc' = "done"
  /\ UNCHANGED <<cin, fs, unreadable, single_vars, config_vars, batch_vars>>

\* the join of dds_to_xbt on the payload and the document the split wrote
CodecRejoin ==
  /\ cpc = "split"
  /\ cout.ok
  /\ LET l == load_header_from_xml(cout.doc)
         r == join_container(cout.dds_data, l)
     IN  cout' = [cout EXCEPT !.op = "rejoin", !.ok = r.ok, !.err = r.err,
                              !.loaded = l.header_data, !.out = r.out]
  /\ cpc' = "done"
  /\ UNCHANGED <<cin, fs, unreadable, single_vars, config_vars, batch_vars>>

\* load_header_from_xml on the given document
CodecLoad ==
  /\ cpc = "start"
  /\ LET l == load_header_from_xml(cin.doc)
     IN  cout' = [NoResult EXCEPT !.op = "load", !.ok = l.ok, !.loaded = l.header_data]
  /\ cpc' = "done"
  /\ UNCHANGED <<cin, fs, unreadable, single_vars, config_vars, batch_vars>>

\* the join of dds_to_xbt on the given payload and document
CodecJoin ==
  /\ cpc = "start"
  /\ LET l == load_header_from_xml(cin.doc)
         r == join_container(cin.data, l)
     IN  cout' = [NoResult EXCEPT !.op = "join", !.ok = r.ok, !.err = r.err,
                                  !.loaded = l.header_data, !.out = r.out]
  /\ cpc' = "done"
  /\ UNCHANGED <<cin, fs, unreadable, single_vars, config_vars, batch_vars>>

\* payloads joined to the sidecar of another container: the bare payload
\* magic, and payloads that hold the payload magic or a part of it again
ResplitPayloads == {DDS, DDS \o DDS \o <<105>>, DDS \o <<68, 68, 83>>}

\* the join of dds_to_xbt on a given payload and the document the split
\* wrote, then the split of xbt_to_dds on the joined bytes
CodecResplit ==
  /\ cpc = "split"
  /\ cout.ok
  /\ \E p \in ResplitPayloads :
       LET l == load_header_from_xml(cout.doc)
           j == join_container(p, l)
           r == IF j.ok THEN split_container(j.out) ELSE SplitFailed(j.err, <<>>)
       IN  cout' = [NoResult EXCEPT !.op = "resplit", !.ok = r.ok, !.err = r.err,
                                    !.header_data = r.header_data, !.dds_data = r.dds_data,
                                    !.doc = r.doc, !.loaded = l.header_data, !.out = j.out,
                                    !.payload = p]
  /\ cpc' = "done"
  /\ UNCHANGED <<cin, fs, unreadable, single_vars, config_vars, batch_vars>>

NextCodec ==
  \/ CodecClassify
  \/ CodecSplit
  \/ CodecReadBack
  \/ CodecRejoin
  \/ CodecLoad
  \/ CodecJoin
  \/ CodecResplit

SpecCodec == InitCodec /\ [][NextCodec]_vars

(***************************************************************************)
(* Path strings and sorted(): a path is ordered as the string              *)
(* dir + "/" + base + ext, compared character by character.                *)
(***************************************************************************)
Codes(n) ==
  CASE n = "root" -> <<114, 111, 111, 116>>
    [] n = "root/sub" -> <<114, 111, 111, 116, 47, 115, 117, 98>>
    [] n = "extract" -> <<101, 120, 116, 114, 97, 99, 116>>
    [] n = "convert" -> <<99, 111, 110, 118, 101, 114, 116>>
    [] n = "work" -> <<119, 111, 114, 107>>
    [] n = "a" -> <<97>>
    [] n = "b" -> <<98>>
    [] n = "c" -> <<99>>
    [] n = "d" -> <<100>>
    [] n = "e" -> <<101>>
    [] n = "photo" -> <<112, 104, 111, 116, 111>>
    [] n = ".xbt" -> <<46, 120, 98, 116>>
    [] n = ".XBT" -> <<46, 88, 66, 84>>
    [] n = ".dds" -> <<46, 100, 100, 115>>
    [] n = ".xml" -> <<46, 120, 109, 108>>
    [] OTHER -> <<>>

PathStr(p) == Codes(p.dir) \o <<47>> \o Codes(p.base) \o Codes(p.ext)

RECURSIVE LexLess(_, _)
LexLess(a, b) ==
  IF b = <<>> THEN FALSE
  ELSE IF a = <<>> THEN TRUE
  ELSE IF Head(a) # Head(b) THEN Head(a) < Head(b)
  ELSE LexLess(Tail(a), Tail(b))

\* sorted(S)
RECURSIVE SortedPaths(_)
SortedPaths(S) ==
  IF S = {} THEN <<>>
  ELSE LET m == CHOOSE x \in S : \A y \in S \ {x} : LexLess(PathStr(x), PathStr(y))
       IN  <<m>> \o SortedPaths(S \ {m})

\* filename.lower() keeps the extension in lower case
LowerExt(e) == IF e = ".XBT" THEN ".xbt" ELSE e

RootDirs == {"root", "root/sub"}

ExtractDir == "extract"

ConvertDir == "convert"

(***************************************************************************)
(* find_files_in_folder_with_progress: every file under the folder whose   *)
(* lower-cased name ends with one of the extensions, sorted.               *)
(***************************************************************************)
\* faulty variant: the extension is compared as it is written
find_files_in_folder_with_progress_CaseSensitive(f, extensions) ==
  SortedPaths({p \in DOMAIN f : p.dir \in RootDirs /\ p.ext \in extensions})

find_files_in_folder_with_progress(f, extensions) ==
  SortedPaths({p \in DOMAIN f : p.dir \in RootDirs /\ LowerExt(p.ext) \in extensions})

ExtensionsFor(ct) ==
  IF ct = "auto" THEN {".xbt", ".dds"}
  ELSE IF ct = "xbt_to_dds" THEN {".xbt"}
  ELSE {".dds"}

\* os.path.join(extract_dir, os.path.basename(xbt_file))
StagedPath(xbt_file) == [dir |-> ExtractDir, base |-> xbt_file.base, ext |-> xbt_file.ext]

(***************************************************************************)
(* One iteration of the staging loop of convert_batch: the file system     *)
(* after it.  A copy that raises is logged and the loop goes on.           *)
(***************************************************************************)
\* faulty variant: the copy is made whether the destination exists or not
stage_file_AlwaysCopy(f, xbt_file, overwrite) ==
  IF Readable(f, xbt_file) THEN Write(f, StagedPath(xbt_file), f[xbt_file]) ELSE f

\* faulty variant: an existing destination is never replaced
stage_file_KeepExisting(f, xbt_file, overwrite) ==
  IF ~Exists(f, StagedPath(xbt_file)) /\ Readable(f, xbt_file)
  THEN Write(f, StagedPath(xbt_file), f[xbt_file])
  ELSE f

stage_file(f, xbt_file, overwrite) ==
  LET dest_path == StagedPath(xbt_file)
  IN  IF ~Exists(f, dest_path) \/ overwrite
      THEN IF Readable(f, xbt_file) THEN Write(f, dest_path, f[xbt_file]) ELSE f
      ELSE f

(***************************************************************************)
(* The list the Convert loop walks: the staged copies of the .xbt files,   *)
(* then the .dds files.                                                    *)
(***************************************************************************)
\* faulty variant: the payload files are put before the staged wrapped files
FilesToConvert_PayloadFirst(ct, xbts, ddss) ==
  (IF ct \in {"auto", "dds_to_xbt"} /\ ddss # <<>> THEN ddss ELSE <<>>)
  \o (IF ct \in {"auto", "xbt_to_dds"} /\ xbts # <<>>
      THEN [k \in 1..Len(xbts) |-> StagedPath(xbts[k])]
      ELSE <<>>)

FilesToConvert(ct, xbts, ddss) ==
  (IF ct \in {"auto", "xbt_to_dds"} /\ xbts # <<>>
   THEN [k \in 1..Len(xbts) |-> StagedPath(xbts[k])]
   ELSE <<>>)
  \o (IF ct \in {"auto", "dds_to_xbt"} /\ ddss # <<>> THEN ddss ELSE <<>>)

\* faulty variant: an existing output never stops the conversion
output_exists_skip_Never(f, output_path, overwrite) == FALSE

\* faulty variant: the path looked for is that of the sidecar next to the output
output_exists_skip_SidecarPath(f, output_path, overwrite) ==
  Exists(f, WithExt(output_path, ".xml")) /\ ~overwrite

\* os.path.exists(output_path) and not self.overwrite_existing.get()
output_exists_skip(f, output_path, overwrite) == Exists(f, output_path) /\ ~overwrite

(***************************************************************************)
(* One iteration of the Convert loop of convert_batch:                     *)
(* [result, reason, conv, fs].                                             *)
(***************************************************************************)
Outcome(result, reason, conv, f) == [result |-> result, reason |-> reason, conv |-> conv, fs |-> f]

process_file(f, input_path, ct, overwrite, fix, norm) ==
  LET file_type == detect_file_type(f, input_path)
      current_conversion ==
        IF ct # "auto" THEN ct
        ELSE IF file_type = "xbt" THEN "xbt_to_dds"
        ELSE IF file_type = "dds" THEN "dds_to_xbt"
        ELSE "unknown"
      output_path ==
        [dir |-> ConvertDir, base |-> input_path.base,
         ext |-> IF current_conversion = "xbt_to_dds" THEN ".dds" ELSE ".xbt"]
      xml_output_path == [dir |-> ConvertDir, base |-> input_path.base, ext |-> ".xml"]
  IN  IF current_conversion = "unknown"
      THEN Outcome("skipped", "unknown_type", current_conversion, f)
      ELSE IF ~check_conversion_requirements(f, input_path, current_conversion)
      THEN Outcome("skipped", "missing_sidecar", current_conversion, f)
      ELSE IF output_exists_skip(f, output_path, overwrite)
      THEN Outcome("skipped", "output_exists", current_conversion, f)
      ELSE LET r == IF current_conversion = "xbt_to_dds"
                    THEN xbt_to_dds_batch(f, input_path, output_path, xml_output_path)
                    ELSE dds_to_xbt(f, input_path, output_path, fix, norm)
           IN  IF r.ok
               THEN Outcome("converted", "", current_conversion, r.fs)
               ELSE Outcome("errors", "conversion_failed", current_conversion, r.fs)

\* faulty variant: a file of unknown type is skipped without being counted
Tally_ForgetUnknown(o) ==
  [converted |-> IF o.result = "converted" THEN 1 ELSE 0,
   skipped |-> IF o.result = "skipped" /\ o.reason # "unknown_type" THEN 1 ELSE 0,
   errors |-> IF o.result = "errors" THEN 1 ELSE 0]

\* the counter increments of one iteration
Tally(o) ==
  [converted |-> IF o.result = "converted" THEN 1 ELSE 0,
   skipped |-> IF o.result = "skipped" THEN 1 ELSE 0,
   errors |-> IF o.result = "errors" THEN 1 ELSE 0]

\* faulty variant: a failed conversion is not caught in the loop and ends the run
AfterFile_AbortOnError(o) == IF o.result = "errors" THEN "aborted" ELSE "convert"

\* faulty variant: the first failed conversion ends the loop and the run goes
\* to its summary
AfterFile_EndOnError(o) == IF o.result = "errors" THEN "done" ELSE "convert"

\* where the run goes after one iteration: the loop goes on whatever the outcome
AfterFile(o) == "convert"

(***************************************************************************)
(* The trees a batch run starts from.                                      *)
(***************************************************************************)
W1 == TBX \o DefaultFields \o DefaultHash \o <<65, 0>> \o DDS \o <<101>>

W2 == TBX \o DefaultFields \o DefaultHash \o DDS \o <<102>>

\* a wrapped container whose path region holds a control character
WC == TBX \o DefaultFields \o DefaultHash \o <<1, 0>> \o DDS \o <<101>>

\* a wrapper without payload
WN == TBX \o Zeros(12)

P1 == DDS \o <<103>>

Junk == <<1, 2, 3>>

\* the sidecar a split of W2 writes
GoodDoc == save_header_to_xml(Take(W2, HashEnd)).doc

OldFile == BinFile(<<111>>)

P(d, b, e) == [dir |-> d, base |-> b, ext |-> e]

\* the file system holding the files of slots whose choice is not "absent":
\* slots is a set of <<path, file-or-absent>> pairs
Absent == [kind |-> "none", data |-> <<>>, doc |-> EmptyDoc]

Tree(slots) ==
  [q \in {sl[1] : sl \in {x \in slots : x[2].kind # "none"}} |->
     (CHOOSE sl \in slots : sl[1] = q)[2]]

Opt(S) == {Absent} \cup S

\* wrapped and payload files with distinct base names, sidecars present or not
AccountingTrees ==
  {Tree({<<P("root", "a", ".xbt"), a>>, <<P("root", "b", ".XBT"), b>>,
         <<P("root/sub", "c", ".xbt"), c>>, <<P("root", "d", ".dds"), d>>,
         <<P("root/sub", "e", ".dds"), e>>, <<P("root", "d", ".xml"), dx>>,
         <<P("root/sub", "e", ".xml"), ex>>}) :
     a \in Opt({BinFile(W1), BinFile(WC)}), b \in Opt({BinFile(W2)}), c \in Opt({BinFile(W1)}),
     d \in Opt({BinFile(P1)}), e \in Opt({BinFile(P1)}),
     dx \in Opt({XmlFile(GoodDoc)}), ex \in Opt({XmlFile(GoodDoc)})}

\* files with content that is not what their name says, and outputs of an
\* earlier run
FaultyTrees ==
  {Tree({<<P("root", "a", ".xbt"), a>>, <<P("root", "d", ".dds"), d>>,
         <<P("root", "d", ".xml"), dx>>, <<P(ConvertDir, "a", ".dds"), old>>,
         <<P(ConvertDir, "d", ".xbt"), old>>}) :
     a \in Opt({BinFile(W1), BinFile(WN), BinFile(P1), BinFile(Junk)}),
     d \in Opt({BinFile(P1), BinFile(Junk), BinFile(W1)}),
     dx \in Opt({XmlFile(GoodDoc), XmlFile(RawDoc(<<53>>)), BinFile(Junk)}),
     old \in Opt({OldFile})}

\* '5', space, 'g'
BatchTextChars == {53, 32, 103}

BatchDocs ==
  {RawDoc(t) : t \in SeqsUpTo(BatchTextChars, MaxText) \cup ExtraTexts} \cup ShapedDocs

\* one payload and a sidecar document of any shape
SidecarTrees ==
  {Tree({<<P("root", "d", ".dds"), BinFile(P1)>>, <<P("root", "d", ".xml"), XmlFile(doc)>>}) :
     doc \in BatchDocs}

\* two wrapped files with the same base name, and a staged file of an
\* earlier run
CollisionTrees ==
  {Tree({<<P("root", "a", ".xbt"), BinFile(W1)>>, <<P("root/sub", "a", ".xbt"), a2>>,
         <<P(ExtractDir, "a", ".xbt"), st>>, <<P(ConvertDir, "a", ".dds"), old>>}) :
     a2 \in Opt({BinFile(W2)}), st \in Opt({BinFile(W2), BinFile(WN)}), old \in Opt({OldFile})}

\* the run has not begun; prev keeps the tree it starts from
IdleRun ==
  /\ prev = fs
  /\ file_path = NoPath
  /\ IdleCodec
  /\ pc = "start"
  /\ files = <<>>
  /\ xbt_files = <<>>
  /\ dds_files = <<>>
  /\ files_to_convert = <<>>
  /\ idx = 0
  /\ converted = 0
  /\ skipped = 0
  /\ errors = 0
  /\ outcomes = <<>>

InitBatch ==
  /\ \/ /\ fs \in AccountingTrees
        /\ unreadable = {}
        /\ conversion_type \in ConversionTypes
        /\ overwrite_existing \in BOOLEAN
        /\ fix_dds_format = FALSE
     \/ /\ fs \in FaultyTrees
        /\ unreadable \in {{}, {P("root", "a", ".xbt")}, {P("root", "d", ".dds")}}
        /\ conversion_type \in ConversionTypes
        /\ overwrite_existing \in BOOLEAN
        /\ fix_dds_format \in BOOLEAN
     \/ /\ fs \in SidecarTrees
        /\ unreadable = {}
        /\ conversion_type \in {"auto", "dds_to_xbt"}
        /\ overwrite_existing = FALSE
        /\ fix_dds_format = FALSE
     \/ /\ fs \in CollisionTrees
        /\ unreadable = {}
        /\ conversion_type \in {"auto", "xbt_to_dds"}
        /\ overwrite_existing \in BOOLEAN
        /\ fix_dds_format = FALSE
  /\ IdleRun

(***************************************************************************)
(* convert_batch, one action per step of the run.                          *)
(***************************************************************************)
\* Step 1: scan; no file found ends the run with False
Discover ==
  /\ pc = "start"
  /\ LET found == find_files_in_folder_with_progress(fs, ExtensionsFor(conversion_type))
     IN  /\ files' = found
         /\ xbt_files' = SelectSeq(found, LAMBDA q : LowerExt(q.ext) = ".xbt")
         /\ dds_files' = SelectSeq(found, LAMBDA q : LowerExt(q.ext) = ".dds")
         /\ pc' = IF found = <<>> THEN "failed" ELSE "stage"
  /\ idx' = 0
  /\ UNCHANGED <<fs, unreadable, single_vars, codec_vars, config_vars, files_to_convert,
                 converted, skipped, errors, outcomes>>

\* Step 2: one iteration of the copy loop
StageCopy ==
  /\ pc = "stage"
  /\ idx < Len(xbt_files)
  /\ fs' = stage_file(fs, xbt_files[idx + 1], overwrite_existing)
  /\ idx' = idx + 1
  /\ UNCHANGED <<unreadable, single_vars, codec_vars, config_vars, pc, files, xbt_files,
                 dds_files, files_to_convert, converted, skipped, errors, outcomes>>

\* Step 3, before the loop: the list of files to convert and the counters
Prepare ==
  /\ pc = "stage"
  /\ idx = Len(xbt_files)
  /\ LET todo == FilesToConvert(conversion_type, xbt_files, dds_files)
     IN  /\ files_to_convert' = todo
         /\ pc' = IF todo = <<>> THEN "failed" ELSE "convert"
  /\ idx' = 0
  /\ converted' = 0
  /\ skipped' = 0
  /\ errors' = 0
  /\ UNCHANGED <<fs, unreadable, single_vars, codec_vars, config_vars, files, xbt_files,
                 dds_files, outcomes>>

\* Step 3: one iteration of the Convert loop
ConvertFile ==
  /\ pc = "convert"
  /\ idx < Len(files_to_convert)
  /\ \E norm \in (IF fix_dds_format THEN NormOutcomes ELSE {NoFix}) :
       LET input_path == files_to_convert[idx + 1]
           o == process_file(fs, input_path, conversion_type, overwrite_existing,
                             fix_dds_format, norm)
           t == Tally(o)
       IN  /\ fs' = o.fs
           /\ converted' = converted + t.converted
           /\ skipped' = skipped + t.skipped
           /\ errors' = errors + t.errors
           /\ outcomes' = Append(outcomes, [input |-> input_path, conv |-> o.conv,
                                            result |-> o.result, reason |-> o.reason,
                                            norm |-> norm])
           /\ pc' = AfterFile(o)
  /\ idx' = idx + 1
  /\ UNCHANGED <<unreadable, single_vars, codec_vars, config_vars, files, xbt_files,
                 dds_files, files_to_convert>>

\* the summary, and the return of errors == 0
Summarize ==
  /\ pc = "convert"
  /\ idx = Len(files_to_convert)
  /\ pc' = "done"
  /\ UNCHANGED <<fs, unreadable, single_vars, codec_vars, config_vars, files, xbt_files,
                 dds_files, files_to_convert, idx, converted, skipped, errors, outcomes>>

Init == InitBatch

Next ==
  \/ Discover
  \/ StageCopy
  \/ Prepare
  \/ ConvertFile
  \/ Summarize

Spec == Init /\ [][Next]_vars

\* the runs checked for progress: one wrapped file, one payload and its
\* sidecar, each possibly faulty, unreadable or already converted
FairTrees ==
  {Tree({<<P("root", "a", ".xbt"), a>>, <<P("root", "d", ".dds"), d>>,
         <<P("root", "d", ".xml"), dx>>, <<P(ConvertDir, "a", ".dds"), old>>}) :
     a \in Opt({BinFile(W1), BinFile(WN), BinFile(Junk)}), d \in Opt({BinFile(P1)}),
     dx \in Opt({XmlFile(GoodDoc), XmlFile(RawDoc(<<53>>))}), old \in Opt({OldFile})}

InitFair ==
  /\ fs \in FairTrees
  /\ unreadable \in {{}, {P("root", "a", ".xbt")}, {P("root", "d", ".dds")}}
  /\ conversion_type \in ConversionTypes
  /\ overwrite_existing \in BOOLEAN
  /\ fix_dds_format = FALSE
  /\ IdleRun

\* the positions of the batch thread, and those where it has a step to take
Positions == {"start", "stage", "convert", "done", "failed"}

Running == pc \in {"start", "stage", "convert"}

\* a step of the batch thread, seen from its position alone: every step of
\* Next moves pc or idx, and Next has a step exactly where Running holds
Advance == Running /\ pc' \in Positions /\ idx' \in {0, idx, idx + 1}

\* the batch thread is never suspended for ever: while it has a step to take
\* it eventually takes one
FairSpec == InitFair /\ [][Next]_vars /\ WF_<<pc, idx>>(Advance)

(***************************************************************************)
(* Properties of the codec (SpecCodec).                                    *)
(***************************************************************************)
\* a wrapped container in the sense of the data model: the wrapper magic, a
\* header region of at least 16 bytes, then the payload magic
ValidWrapped(x) == StartsWith(x, TBX) /\ Find(x, DDS) >= 16

NoSpace(t) == SelectSeq(t, LAMBDA c : ~IsSpace(c))

LowerText(t) == [k \in 1..Len(t) |-> IF t[k] \in 65..90 THEN t[k] + 32 ELSE t[k]]

\* a non-empty text of hex digit pairs and nothing else
PlainHex(t) == t # <<>> /\ Len(t) % 2 = 0 /\ \A k \in 1..Len(t) : HexVal(t[k]) >= 0

ProperSidecar(d) == d.wellformed /\ d.tag = "XBTHeader" /\ d.hasRaw

\* C1: round trip.  For every valid wrapped container X the split succeeds,
\* and the join of the unaltered payload with the sidecar of the split
\* (normalization disabled) gives a container equal to X byte for byte.
C1_RoundTrip ==
  ValidWrapped(cin.data) =>
    /\ cout.op = "split" => cout.ok
    /\ cout.op = "rejoin" => cout.ok /\ cout.out = cin.data

\* C2: sidecar identity.  For every header h found in a valid wrapped
\* container, writing the sidecar document from h succeeds, and reading the
\* document back returns exactly h.
C2_SidecarIdentity ==
  ValidWrapped(cin.data) =>
    /\ cout.op = "split" => cout.ok /\ cout.doc.hasRaw
    /\ cout.op = "readback" => cout.ok /\ cout.loaded = cout.header_data

\* C3: header boundary.  For every wrapper whose header has length N,
\* 16 <= N <= 40, N the offset of the first payload magic, the split
\* succeeds and returns the header container[0:N], of length N, and the
\* payload container[N:], which starts with the payload magic.
C3_HeaderBoundary ==
  LET N == Find(cin.data, DDS)
  IN  (cout.op = "split" /\ StartsWith(cin.data, TBX) /\ N >= 16 /\ N <= 40) =>
        /\ cout.ok
        /\ Len(cout.header_data) = N
        /\ cout.header_data = Take(cin.data, N)
        /\ cout.dds_data = Drop(cin.data, N)
        /\ StartsWith(cout.dds_data, DDS)

\* C4: sniffer totality.  The classification is one of xbt, dds, unknown; it
\* is xbt iff the first 4 bytes are TBX\0, dds iff they are 'DDS ', unknown
\* for every input shorter than 4 bytes or with neither magic; inputs with
\* the same first 4 bytes get the same class.
C4_SnifferTotality ==
  cout.op = "classify" =>
    LET d == cin.data
        isTbx == Len(d) >= 4 /\ d[1] = 84 /\ d[2] = 66 /\ d[3] = 88 /\ d[4] = 0
        isDds == Len(d) >= 4 /\ d[1] = 68 /\ d[2] = 68 /\ d[3] = 83 /\ d[4] = 32
    IN  /\ cout.class \in {"xbt", "dds", "unknown"}
        /\ cout.class = "xbt" <=> isTbx
        /\ cout.class = "dds" <=> isDds
        /\ cout.class = "unknown" <=> (~isTbx /\ ~isDds)
        /\ Len(d) < 4 => cout.class = "unknown"
        /\ \A y \in OtherInputs \cup {TBX \o <<9>>, DDS \o <<9>>, <<1, 2, 3, 4>>} :
             Take(y, 4) = Take(d, 4) => Sniff(y) = cout.class

\* a wrapped container longer than its magic has been classified
C4_Witness == cout.op = "classify" /\ cout.class = "xbt" /\ Len(cin.data) > 4

\* C5: join is plain concatenation.  With normalization disabled, the join
\* of a payload that starts with the payload magic and a sidecar whose
\* raw-header field decodes to the bytes h writes h followed by the payload,
\* len(h) + len(payload) bytes, no byte transformed; a payload that does not
\* start with the payload magic makes the join fail.
C5_JoinIsConcatenation ==
  cout.op = "join" =>
    LET n == Len(cout.out) - Len(cin.data)
    IN  /\ ~StartsWith(cin.data, DDS) => ~cout.ok /\ cout.out = <<>>
        /\ cout.ok =>
             /\ n > 0
             /\ Hex(Take(cout.out, n)) = LowerText(NoSpace(cin.doc.raw))
             /\ Drop(cout.out, n) = cin.data
        /\ (StartsWith(cin.data, DDS) /\ ProperSidecar(cin.doc) /\ PlainHex(cin.doc.raw))
             => cout.ok

\* a join has written a header of two bytes or more before the payload
C5_Witness ==
  cout.op = "join" /\ cout.ok /\ Len(cout.out) >= Len(cin.data) + 2 /\ Len(cin.data) > 4

(***************************************************************************)
(* Properties of the batch run (Spec, FairSpec).                           *)
(***************************************************************************)
\* the Convert loop is about to process a file
AtFile == pc = "convert" /\ idx < Len(files_to_convert)

CurInput == files_to_convert[idx + 1]

CurSidecar == WithExt(CurInput, ".xml")

CurJoinOutput == P(ConvertDir, CurInput.base, ".xbt")

\* the file about to be processed is to be joined
JoinPlanned ==
  /\ AtFile
  /\ \/ conversion_type = "dds_to_xbt"
     \/ /\ conversion_type = "auto"
        /\ Readable(fs, CurInput)
        /\ StartsWith(Bytes(fs[CurInput]), DDS)

\* its join is attempted: the sidecar document exists and the output is free
\* or may be overwritten
JoinAttempted ==
  /\ JoinPlanned
  /\ Exists(fs, CurSidecar)
  /\ ~(Exists(fs, CurJoinOutput) /\ ~overwrite_existing)

CountedAsError == errors' = errors + 1 /\ converted' = converted /\ skipped' = skipped

CountedAsSkipped == skipped' = skipped + 1 /\ converted' = converted /\ errors' = errors

\* the text is hex digit pairs, with whitespace only before a pair or at the end
HexPairs(t) ==
  /\ Len(NoSpace(t)) % 2 = 0
  /\ \A k \in 1..Len(t) :
       \/ IsSpace(t[k]) /\ Len(NoSpace(Take(t, k - 1))) % 2 = 0
       \/ HexVal(t[k]) >= 0

\* the raw-header field as the claim describes a malformed one: absent,
\* empty, of odd length, or with a character that is no hex digit
RawOddOrNonHex(d) ==
  \/ ~d.hasRaw
  \/ d.raw = <<>>
  \/ Len(d.raw) % 2 = 1
  \/ \E k \in 1..Len(d.raw) : HexVal(d.raw[k]) < 0

\* the raw-header field as the code rejects it: absent, empty or only
\* whitespace, or not hex digit pairs once the whitespace around pairs is set
\* aside
RawRejected(d) ==
  \/ ~d.hasRaw
  \/ NoSpace(d.raw) = <<>>
  \/ ~HexPairs(Strip(d.raw))

SidecarIsDocument == Readable(fs, CurSidecar) /\ fs[CurSidecar].kind = "xml"

\* C6 as stated: a sidecar whose raw-header field is absent, empty, of odd
\* length or holds a non-hex character makes the join fail, and in a batch
\* run the file is counted in errors, not in converted or skipped.
C6_OddOrNonHexIsError ==
  [][(JoinAttempted /\ SidecarIsDocument /\ RawOddOrNonHex(fs[CurSidecar].doc))
       => CountedAsError]_vars

\* C6 amended: a sidecar whose raw-header field is absent, empty or only
\* whitespace, or is not a sequence of two-digit hex pairs once surrounding
\* whitespace and whitespace before a pair are set aside, makes the join
\* fail; in a batch run a file whose join is attempted with such a sidecar
\* is counted in errors, not in converted or skipped, and nothing is written.
C6_RejectedRawIsError ==
  [][(JoinAttempted /\ SidecarIsDocument /\ RawRejected(fs[CurSidecar].doc))
       => (CountedAsError /\ fs' = fs)]_vars

\* a join was attempted with a sidecar whose raw field is not hex pairs, and
\* the file was counted as an error
C6_Witness ==
  \E k \in 1..Len(outcomes) :
    LET xml == WithExt(outcomes[k].input, ".xml")
    IN  /\ outcomes[k].conv = "dds_to_xbt"
        /\ outcomes[k].result = "errors"
        /\ xml \in DOMAIN fs
        /\ fs[xml].kind = "xml"
        /\ fs[xml].doc.hasRaw
        /\ ~HexPairs(fs[xml].doc.raw)
        /\ errors >= 1

\* C7: in convert_batch a payload file to be joined that has no paired
\* sidecar document is counted in skipped, never in errors or converted; the
\* check comes before the join, so nothing is written for it.
C7_MissingSidecarSkipped ==
  [][(JoinPlanned /\ ~Exists(fs, CurSidecar)) => (CountedAsSkipped /\ fs' = fs)]_vars

\* a file to be joined without sidecar has been processed and skipped
C7_Witness ==
  \E k \in 1..Len(outcomes) :
    /\ outcomes[k].conv = "dds_to_xbt"
    /\ outcomes[k].result = "skipped"
    /\ WithExt(outcomes[k].input, ".xml") \notin DOMAIN fs
    /\ skipped >= 1

\* the scenario of C8, read off the tree the run started from: Auto, no
\* overwrite, no normalization, empty staging and output directories, every
\* file readable, and under the root only valid wrapped files named .xbt,
\* valid payload files named .dds and valid sidecars, with distinct base names
WrappedIn(f) == {q \in DOMAIN f : q.dir \in RootDirs /\ LowerExt(q.ext) = ".xbt"}

PayloadIn(f) == {q \in DOMAIN f : q.dir \in RootDirs /\ q.ext = ".dds"}

SidecarIn(f) == {q \in DOMAIN f : q.dir \in RootDirs /\ q.ext = ".xml"}

AccountingScenario(f) ==
  /\ conversion_type = "auto"
  /\ ~overwrite_existing
  /\ ~fix_dds_format
  /\ unreadable = {}
  /\ \A q \in DOMAIN f : q.dir \in RootDirs
  /\ \A q \in WrappedIn(f) : f[q].kind = "bin" /\ ValidWrapped(f[q].data)
  /\ \A q \in PayloadIn(f) : f[q].kind = "bin" /\ StartsWith(f[q].data, DDS)
  /\ \A q \in SidecarIn(f) :
       f[q].kind = "xml" /\ ProperSidecar(f[q].doc) /\ PlainHex(f[q].doc.raw)
  /\ \A q, r \in WrappedIn(f) \cup PayloadIn(f) : q # r => q.base # r.base

\* C8: batch accounting.  In the scenario with w wrapped files, p payload
\* files and m payload files without sidecar, the run ends with
\* converted = w + p - m, skipped = m, errors = 0.
C8_BatchAccounting ==
  (pc = "done" /\ AccountingScenario(prev)) =>
    LET w == Cardinality(WrappedIn(prev))
        p == Cardinality(PayloadIn(prev))
        m == Cardinality({q \in PayloadIn(prev) : WithExt(q, ".xml") \notin DOMAIN prev})
    IN  /\ converted = w + p - m
        /\ skipped = m
        /\ errors = 0

CountOf(r) == Cardinality({k \in 1..Len(outcomes) : outcomes[k].result = r})

\* C9: outcome accounting.  In the Convert phase every processed file
\* increments exactly one of converted, skipped, errors: after k files the
\* three counters are the numbers of files with that outcome and add up to
\* k, and at the end to the number of files to convert.
C9_OutcomeAccounting ==
  /\ pc \in {"convert", "done"} =>
       /\ Len(outcomes) = idx
       /\ converted + skipped + errors = idx
       /\ converted = CountOf("converted")
       /\ skipped = CountOf("skipped")
       /\ errors = CountOf("errors")
  /\ pc = "done" => converted + skipped + errors = Len(files_to_convert)

\* a run has ended with files of all three outcomes
C9_Witness == pc = "done" /\ converted >= 1 /\ skipped >= 1 /\ errors >= 1

\* C10: a per-file failure never aborts the run.  Once a conversion has
\* failed, and once staging has begun (a copy may fail), the run goes on to
\* process every file of the list and reaches the summary.
C10_FailureNeverAborts ==
  /\ (pc = "convert" /\ errors >= 1) ~> (pc = "done" /\ Len(outcomes) = Len(files_to_convert))
  /\ (pc = "stage") ~> (pc = "done" /\ Len(outcomes) = Len(files_to_convert))

\* a run has reached the summary after a failure that was not the last file
C10_Witness ==
  /\ pc = "done"
  /\ \E k \in 1..(Len(outcomes) - 1) : outcomes[k].result = "errors"

\* the file about to be processed is to be split
SplitPlanned ==
  /\ AtFile
  /\ \/ conversion_type = "xbt_to_dds"
     \/ /\ conversion_type = "auto"
        /\ Readable(fs, CurInput)
        /\ StartsWith(Bytes(fs[CurInput]), TBX)

CurSplitOutput == P(ConvertDir, CurInput.base, ".dds")

CurSplitSidecar == P(ConvertDir, CurInput.base, ".xml")

CurOutput == IF SplitPlanned THEN CurSplitOutput ELSE CurJoinOutput

\* the file about to be processed has a direction and, for a join, its
\* sidecar: the loop body reaches the look at the output path
ReachesOutputCheck == SplitPlanned \/ (JoinPlanned /\ Exists(fs, CurSidecar))

\* the payloads a join may write after the header: the bytes of the input,
\* or those of a normalized file when normalization is enabled
WritablePayloads(input) ==
  {Bytes(fs[input])} \cup (IF fix_dds_format THEN {n.data : n \in {x \in NormOutcomes : x.fixed}} ELSE {})

\* the file system after the step holds the result of the planned conversion
ResultWritten ==
  IF SplitPlanned
  THEN LET data == Bytes(fs[CurInput])
       IN  /\ CurSplitOutput \in DOMAIN fs'
           /\ fs'[CurSplitOutput] = BinFile(Drop(data, Find(data, DDS)))
           /\ CurSplitSidecar \in DOMAIN fs'
           /\ fs'[CurSplitSidecar].kind = "xml"
           /\ Hex(Take(data, Find(data, DDS))) = fs'[CurSplitSidecar].doc.raw
  ELSE /\ CurJoinOutput \in DOMAIN fs'
       /\ \E pl \in WritablePayloads(CurInput) :
            LET out == fs'[CurJoinOutput].data
                n == Len(out) - Len(pl)
            IN  /\ n > 0
                /\ Drop(out, n) = pl
                /\ Hex(Take(out, n)) = LowerText(NoSpace(fs[CurSidecar].doc.raw))

\* C11: existing-output policy.  In the Convert loop, when the output path of
\* a file exists and overwrite is disabled, the file is counted skipped and
\* the file system (the existing output and its sidecar included) is left
\* unchanged; otherwise the split or join is performed, the file is counted
\* converted or in errors, never skipped, and a conversion that succeeds has
\* written its result.
C11_ExistingOutputPolicy ==
  [][ReachesOutputCheck =>
       IF Exists(fs, CurOutput) /\ ~overwrite_existing
       THEN CountedAsSkipped /\ fs' = fs
       ELSE /\ skipped' = skipped
            /\ converted' + errors' = converted + errors + 1
            /\ converted' = converted + 1 => ResultWritten]_vars

\* a file whose output existed was skipped and the old output is still there
C11_Witness ==
  \E k \in 1..Len(outcomes) :
    LET out == P(ConvertDir, outcomes[k].input.base,
                 IF outcomes[k].conv = "xbt_to_dds" THEN ".dds" ELSE ".xbt")
    IN  /\ outcomes[k].result = "skipped"
        /\ outcomes[k].conv \in {"xbt_to_dds", "dds_to_xbt"}
        /\ ~overwrite_existing
        /\ out \in DOMAIN prev
        /\ out \in DOMAIN fs
        /\ fs[out] = prev[out]
        /\ outcomes[k].conv = "dds_to_xbt" => WithExt(outcomes[k].input, ".xml") \in DOMAIN fs

(***************************************************************************)
(* Further properties of the codec (SpecCodec).                            *)
(***************************************************************************)
\* two sidecar documents that differ at most in their Metadata block
SameButMetadata(d, e) ==
  /\ d.wellformed /\ e.wellformed
  /\ d.tag = "XBTHeader" /\ e.tag = "XBTHeader"
  /\ d.hasRaw = e.hasRaw
  /\ d.raw = e.raw

\* C12: only the raw-hex field is load-bearing on read.  Sidecar documents
\* with the same raw-header field and different, malformed or absent
\* Metadata read back to the same header bytes (or fail alike), and a
\* document whose raw field is plain hex reads to the bytes of that hex
\* whatever its Metadata block is.
C12_OnlyRawIsLoadBearing ==
  cout.op = "load" =>
    /\ \A d \in GivenDocs :
         SameButMetadata(d, cin.doc) =>
           LET l == load_header_from_xml(d)
           IN  l.ok = cout.ok /\ l.header_data = cout.loaded
    /\ (cin.doc.wellformed /\ cin.doc.tag = "XBTHeader" /\ cin.doc.hasRaw /\ PlainHex(cin.doc.raw)) =>
         cout.ok /\ Hex(cout.loaded) = LowerText(cin.doc.raw)

\* a document whose Metadata holds a HeaderSize that is no number has been
\* read to the byte of its raw field
C12_Witness ==
  /\ cout.op = "load"
  /\ cin.doc.hasMeta
  /\ "HeaderSize" \in DOMAIN cin.doc.meta
  /\ cin.doc.meta["HeaderSize"] = <<103>>
  /\ cout.ok
  /\ cout.loaded = <<90>>

\* C13: decoding failures of optional header regions are non-fatal.  The
\* split succeeds for every container that starts with the wrapper magic and
\* holds the payload magic after its fixed header, whatever bytes are in the
\* hash region and in the embedded-path region; path bytes that cannot be
\* kept give a sidecar with the raw header and no path field.
C13_OptionalRegionsNonFatal ==
  (cout.op = "split" /\ StartsWith(cin.data, TBX) /\ Find(cin.data, DDS) >= FixedHeaderSize) =>
    /\ cout.ok
    /\ cout.doc.hasRaw
    /\ cout.doc.raw = Hex(Take(cin.data, Find(cin.data, DDS)))

(***************************************************************************)
(* Further properties of the batch run (Spec).                             *)
(***************************************************************************)
\* the outcome of the normalization step in the iteration just taken
StepNorm == outcomes'[Len(outcomes')].norm

\* the bytes begin with the header the raw field of the document spells
BeginsWithHeaderOf(out, d) ==
  \E n \in 1..Len(out) : Hex(Take(out, n)) = LowerText(NoSpace(d.raw))

\* the join about to be attempted succeeds when normalization is disabled:
\* the payload is readable and begins with its magic, the sidecar is read
JoinWouldSucceed ==
  /\ JoinAttempted
  /\ Readable(fs, CurInput)
  /\ StartsWith(Bytes(fs[CurInput]), DDS)
  /\ SidecarIsDocument
  /\ ProperSidecar(fs[CurSidecar].doc)
  /\ ~RawRejected(fs[CurSidecar].doc)

\* the join has written the header of the sidecar followed by the bytes of
\* the input, unchanged
WroteOriginalPayload ==
  /\ converted' = converted + 1
  /\ CurJoinOutput \in DOMAIN fs'
  /\ LET out == fs'[CurJoinOutput].data
         pl == Bytes(fs[CurInput])
     IN  /\ Len(out) > Len(pl)
         /\ Drop(out, Len(out) - Len(pl)) = pl
         /\ Hex(Take(out, Len(out) - Len(pl))) = LowerText(NoSpace(fs[CurSidecar].doc.raw))

\* a join with normalization enabled that writes a container writes one that
\* begins with the header of the sidecar
HeaderKept ==
  fs' # fs =>
    /\ CurJoinOutput \in DOMAIN fs'
    /\ BeginsWithHeaderOf(fs'[CurJoinOutput].data, fs[CurSidecar].doc)
    /\ \A q \in DOMAIN fs' : q # CurJoinOutput => (q \in DOMAIN fs /\ fs'[q] = fs[q])

\* C14 as stated: with normalization enabled, the written container begins
\* with the header bytes of the sidecar whatever the step does, and when the
\* step fails or the tool is unavailable the join still succeeds and writes
\* the original payload bytes unchanged after the header.
C14_UnavailableKeepsPayload ==
  [][(JoinAttempted /\ fix_dds_format /\ SidecarIsDocument) =>
       /\ HeaderKept
       /\ (JoinWouldSucceed /\ (~StepNorm.fixed \/ ~StepNorm.texconv)) => WroteOriginalPayload]_vars

\* C14 amended: with normalization enabled, the written container begins
\* with the header bytes of the sidecar whatever the step does, and when the
\* step gives no normalized file (the tool failed, or it is unavailable and
\* the fallback failed too) the join still succeeds and writes the original
\* payload bytes unchanged after the header.
C14_NormalizationKeepsHeader ==
  [][(JoinAttempted /\ fix_dds_format /\ SidecarIsDocument) =>
       /\ HeaderKept
       /\ (JoinWouldSucceed /\ ~StepNorm.fixed) => WroteOriginalPayload]_vars

\* with normalization enabled, a join was done after the tool was found and
\* failed, and another with a normalized payload
C14_Witness ==
  /\ fix_dds_format
  /\ \E k \in 1..Len(outcomes) :
       /\ outcomes[k].conv = "dds_to_xbt"
       /\ outcomes[k].result = "converted"
       /\ outcomes[k].norm.texconv
       /\ ~outcomes[k].norm.fixed
       /\ P(ConvertDir, outcomes[k].input.base, ".xbt") \in DOMAIN fs
       /\ fs[P(ConvertDir, outcomes[k].input.base, ".xbt")].data
            = Take(W2, HashEnd) \o Bytes(fs[outcomes[k].input])

(***************************************************************************)
(* convert_file in single mode: one conversion of the selected file.  The  *)
(* selected file lies in the directory the batch run writes to, so that    *)
(* the output paths of convert_single_file (next to the input) and of the  *)
(* batch loop body (in convert_dir) are the same paths.                    *)
(***************************************************************************)
SingleTrees ==
  {Tree({<<P(ConvertDir, "photo", ".xbt"), x>>, <<P(ConvertDir, "photo", ".dds"), d>>,
         <<P(ConvertDir, "photo", ".xml"), m>>}) :
     x \in Opt({BinFile(W1), BinFile(WN), BinFile(P1), OldFile}),
     d \in Opt({BinFile(P1), BinFile(W1), OldFile}),
     m \in Opt({XmlFile(GoodDoc), XmlFile(RawDoc(<<53>>)), BinFile(Junk), BinFile(W1)})}

InitSingle ==
  /\ fs \in SingleTrees
  /\ unreadable = {}
  /\ prev = fs
  /\ file_path \in {P(ConvertDir, "photo", ".xbt"), P(ConvertDir, "photo", ".dds"),
                   P(ConvertDir, "photo", ".xml")}
  /\ conversion_type \in ConversionTypes
  /\ overwrite_existing \in BOOLEAN
  /\ fix_dds_format \in BOOLEAN
  /\ IdleCodec
  /\ pc = "single"
  /\ files = <<>>
  /\ xbt_files = <<>>
  /\ dds_files = <<>>
  /\ files_to_convert = <<>>
  /\ idx = 0
  /\ converted = 0
  /\ skipped = 0
  /\ errors = 0
  /\ outcomes = <<>>

\* convert_file, mode "single": the file must exist, then convert_single_file
ConvertSingle ==
  /\ pc = "single"
  /\ \E norm \in (IF fix_dds_format THEN NormOutcomes ELSE {NoFix}) :
       LET r == IF Exists(fs, file_path)
                THEN convert_single_file(fs, file_path, conversion_type, fix_dds_format, norm)
                ELSE [op |-> "none", ok |-> FALSE, fs |-> fs]
       IN  /\ fs' = r.fs
           /\ outcomes' = <<[input |-> file_path, conv |-> r.op,
                             result |-> IF r.ok THEN "converted" ELSE "errors",
                             reason |-> "", norm |-> norm]>>
  /\ pc' = "single_done"
  /\ UNCHANGED <<unreadable, single_vars, codec_vars, config_vars, files, xbt_files,
                 dds_files, files_to_convert, idx, converted, skipped, errors>>

NextSingle == ConvertSingle

SpecSingle == InitSingle /\ [][NextSingle]_vars

\* the loop body of the batch run applied to the selected file in the tree
\* the single conversion started from, with the same normalization outcome
BatchStepOnSelected(overwrite) ==
  process_file(prev, file_path, conversion_type, overwrite, fix_dds_format, outcomes[1].norm)

SingleOutput ==
  WithExt(file_path, IF outcomes[1].conv = "xbt_to_dds" THEN ".dds" ELSE ".xbt")

\* C15 as stated: a single conversion gives the outcome of the batch loop
\* body on a one-element list: the same files afterwards, and a success
\* exactly when the batch counts the file converted (same direction
\* resolution, sidecar precondition, existing-output policy, split/join).
C15_SingleIsBatchStep ==
  pc = "single_done" =>
    LET b == BatchStepOnSelected(overwrite_existing)
    IN  /\ fs = b.fs
        /\ outcomes[1].result = "converted" <=> b.result = "converted"

\* C15 amended: a single conversion gives the outcome of the batch loop body
\* on a one-element list run with overwrite enabled, whatever the overwrite
\* setting is: the same direction resolution and the same split or join and
\* the same files afterwards; it has no existing-output policy, and where the
\* batch skips the file (unknown type, missing sidecar) the single
\* conversion fails.
C15_SingleIsBatchStepOverwriting ==
  pc = "single_done" =>
    LET b == BatchStepOnSelected(TRUE)
    IN  /\ fs = b.fs
        /\ outcomes[1].result = "converted" <=> b.result = "converted"
        /\ b.result \in {"skipped", "errors"} => outcomes[1].result = "errors"
        /\ b.result = "converted" => outcomes[1].conv = b.conv

\* a single conversion with overwrite disabled has replaced an output that
\* was there
C15_Witness ==
  /\ pc = "single_done"
  /\ ~overwrite_existing
  /\ outcomes[1].result = "converted"
  /\ SingleOutput \in DOMAIN prev
  /\ prev[SingleOutput] = OldFile
  /\ fs[SingleOutput] # OldFile

(***************************************************************************)
(* Header extraction (SpecCodec).                                          *)
(***************************************************************************)
NothingReturned == ~cout.ok /\ cout.header_data = <<>> /\ cout.dds_data = <<>>

\* C16 as stated: header extraction fails with an invalid-signature error
\* for every input that does not start with the wrapper magic, and with a
\* payload-not-found error for every input that starts with it and holds no
\* 'DDS '; in both cases no header and no payload is returned.
C16_SignatureErrors ==
  cout.op = "split" =>
    /\ ~StartsWith(cin.data, TBX) => (cout.err = "invalid_signature" /\ NothingReturned)
    /\ (StartsWith(cin.data, TBX) /\ Find(cin.data, DDS) = -1) =>
         (cout.err = "no_dds" /\ NothingReturned)

\* C16 amended: header extraction fails with a too-small error for every
\* input shorter than 16 bytes; for an input of at least 16 bytes it fails
\* with an invalid-signature error when the input does not start with the
\* wrapper magic, and with a payload-not-found error when it starts with it
\* and holds no 'DDS '; in all these cases no header and no payload is
\* returned.
C16_SizeThenSignatureErrors ==
  cout.op = "split" =>
    /\ Len(cin.data) < 16 => (cout.err = "too_small" /\ NothingReturned)
    /\ (Len(cin.data) >= 16 /\ ~StartsWith(cin.data, TBX)) =>
         (cout.err = "invalid_signature" /\ NothingReturned)
    /\ (Len(cin.data) >= 16 /\ StartsWith(cin.data, TBX) /\ Find(cin.data, DDS) = -1) =>
         (cout.err = "no_dds" /\ NothingReturned)

\* an input of 16 bytes or more without the wrapper magic, holding 'DDS ',
\* has been rejected for its signature
C16_Witness ==
  /\ cout.op = "split"
  /\ Len(cin.data) >= 16
  /\ ~StartsWith(cin.data, TBX)
  /\ Find(cin.data, DDS) >= 0
  /\ cout.err = "invalid_signature"

(***************************************************************************)
(* Staging (Spec).                                                         *)
(***************************************************************************)
\* the copy loop is about to handle a discovered wrapped file
AtStage == pc = "stage" /\ idx < Len(xbt_files)

StageSource == xbt_files[idx + 1]

\* the file of the staging directory with the name of the source
StageDest == P(ExtractDir, StageSource.base, StageSource.ext)

OnlyChanged(q) == \A r \in DOMAIN fs' : r # q => (r \in DOMAIN fs /\ fs'[r] = fs[r])

\* C17: staging copy policy.  A discovered wrapped file is copied into the
\* staging directory iff no file of its name exists there or overwrite is
\* enabled; a copy that is skipped leaves the staged file (and every other
\* file) unchanged, a copy that is made gives the staged file the content of
\* the source and changes nothing else.
C17_StagingCopyPolicy ==
  [][(AtStage /\ Readable(fs, StageSource)) =>
       IF StageDest \in DOMAIN fs /\ ~overwrite_existing
       THEN fs' = fs
       ELSE /\ StageDest \in DOMAIN fs'
            /\ fs'[StageDest] = fs[StageSource]
            /\ OnlyChanged(StageDest)]_vars

\* a copy was skipped: the staged file of an earlier run, different from the
\* source, is still there after the source was handled
C17_Witness ==
  /\ pc = "stage"
  /\ idx >= 1
  /\ ~overwrite_existing
  /\ StagedPath(xbt_files[idx]) \in DOMAIN prev
  /\ prev[StagedPath(xbt_files[idx])] # prev[xbt_files[idx]]
  /\ fs[StagedPath(xbt_files[idx])] = prev[StagedPath(xbt_files[idx])]

StagingDone == pc = "stage" /\ idx = Len(xbt_files)

SameName(p, q) == p.base = q.base /\ p.ext = q.ext

\* the discovered wrapped files that share their name with the k-th one
Namesakes(k) == {j \in 1..Len(xbt_files) : SameName(xbt_files[j], xbt_files[k])}

Collides(k) == \E j \in Namesakes(k) : xbt_files[j].dir # xbt_files[k].dir

AllReadable(k) == \A j \in Namesakes(k) : Readable(prev, xbt_files[j])

IsLast(k) == \A j \in Namesakes(k) : j <= k

IsFirst(k) == \A j \in Namesakes(k) : j >= k

StagedHolds(k, c) ==
  StagedPath(xbt_files[k]) \in DOMAIN fs /\ fs[StagedPath(xbt_files[k])] = c

\* C18 as stated: staging collisions are last-write-wins.  When several
\* discovered wrapped files of different directories share a name, the
\* staged file of that name holds, after the Stage step, the content of the
\* last of them in discovery order.
C18_LastWriteWins ==
  StagingDone =>
    \A k \in 1..Len(xbt_files) :
      (Collides(k) /\ AllReadable(k) /\ IsLast(k)) => StagedHolds(k, prev[xbt_files[k]])

\* C18 amended: with overwrite enabled staging collisions are
\* last-write-wins; with overwrite disabled the staged file of an earlier
\* run is kept, and when there was none the staged file holds the content of
\* the first of the colliding files in discovery order.
C18_CollisionByOverwrite ==
  StagingDone =>
    \A k \in 1..Len(xbt_files) :
      (Collides(k) /\ AllReadable(k)) =>
        /\ (overwrite_existing /\ IsLast(k)) => StagedHolds(k, prev[xbt_files[k]])
        /\ (~overwrite_existing /\ StagedPath(xbt_files[k]) \in DOMAIN prev) =>
             StagedHolds(k, prev[StagedPath(xbt_files[k])])
        /\ (~overwrite_existing /\ StagedPath(xbt_files[k]) \notin DOMAIN prev /\ IsFirst(k)) =>
             StagedHolds(k, prev[xbt_files[k]])

\* two wrapped files of different content collided, once with overwrite
\* enabled and the last one staged
C18_Witness ==
  /\ StagingDone
  /\ overwrite_existing
  /\ \E k \in 1..Len(xbt_files) :
       /\ Collides(k)
       /\ IsLast(k)
       /\ \E j \in Namesakes(k) : prev[xbt_files[j]] # prev[xbt_files[k]]
       /\ StagedHolds(k, prev[xbt_files[k]])

(***************************************************************************)
(* Order and discovery (Spec).                                             *)
(***************************************************************************)
\* the k-th processed file is a staged copy of a wrapped file
IsStaged(k) == outcomes[k].input.dir = ExtractDir

\* the discovered path the k-th processed file comes from: staged copies
\* are taken from the discovered wrapped files in their order
ProcessedSource(k) ==
  IF IsStaged(k)
  THEN LET n == Cardinality({j \in 1..k : IsStaged(j)})
       IN  IF n <= Len(xbt_files) THEN xbt_files[n] ELSE outcomes[k].input
  ELSE outcomes[k].input

PathBefore(p, q) == LexLess(PathStr(p), PathStr(q))

\* nothing has been converted: no outcome, and the output directory is as it
\* was when the run began
NothingConverted ==
  /\ outcomes = <<>>
  /\ \A q \in DOMAIN fs : q.dir = ConvertDir => (q \in DOMAIN prev /\ fs[q] = prev[q])

\* the conversions come after discovery and staging, one file at a time, and
\* every discovered file is processed
OneAtATimeAfterStaging ==
  /\ pc \in {"start", "stage"} => NothingConverted
  /\ pc \in {"convert", "done"} =>
       /\ Len(outcomes) = idx
       /\ \A k \in 1..Len(outcomes) : outcomes[k].input = files_to_convert[k]
  /\ pc = "done" =>
       /\ Len(outcomes) = Len(files)
       /\ {ProcessedSource(k) : k \in 1..Len(outcomes)} = {files[k] : k \in 1..Len(files)}

\* C19 as stated: the files are converted one at a time in the
\* lexicographically sorted order of their discovered paths, and no
\* conversion starts before discovery and staging have finished.
C19_SortedOrder ==
  /\ OneAtATimeAfterStaging
  /\ \A j, k \in 1..Len(outcomes) :
       j < k => PathBefore(ProcessedSource(j), ProcessedSource(k))

\* C19 amended: the files are converted one at a time, the wrapped files
\* (their staged copies) first, in the sorted order of their discovered
\* paths, then the payload files in the sorted order of their discovered
\* paths; no conversion starts before discovery and staging have finished.
C19_WrappedThenPayloadSorted ==
  /\ OneAtATimeAfterStaging
  /\ \A j, k \in 1..Len(outcomes) :
       j < k =>
         /\ ~(~IsStaged(j) /\ IsStaged(k))
         /\ IsStaged(j) = IsStaged(k) => PathBefore(ProcessedSource(j), ProcessedSource(k))

\* a run is over in which a wrapped file was converted before a payload
\* file whose path sorts before it
C19_Witness ==
  /\ pc = "done"
  /\ Len(outcomes) >= 3
  /\ \E j, k \in 1..Len(outcomes) :
       /\ j < k
       /\ IsStaged(j)
       /\ ~IsStaged(k)
       /\ PathBefore(ProcessedSource(k), ProcessedSource(j))

\* the extensions a direction asks for, in every spelling of the trees
WantedExt(ct) ==
  IF ct = "auto" THEN {".xbt", ".XBT", ".dds"}
  ELSE IF ct = "xbt_to_dds" THEN {".xbt", ".XBT"}
  ELSE {".dds"}

\* C20: discovery.  The Discover step returns exactly the files under the
\* root (at any depth) whose extension, compared without regard to case,
\* belongs to the filter of the direction, each path once, in
\* lexicographically sorted order: the list is determined by the tree and the
\* direction.
C20_Discovery ==
  pc \in {"stage", "convert", "done", "failed"} =>
    /\ {files[k] : k \in 1..Len(files)}
         = {q \in DOMAIN prev : q.dir \in {"root", "root/sub"} /\ q.ext \in WantedExt(conversion_type)}
    /\ \A j, k \in 1..Len(files) : j < k => PathBefore(files[j], files[k])

\* a discovery has returned three or more files, one with an upper-case
\* extension and one of a subdirectory, and has left a file out
C20_Witness ==
  /\ pc = "stage"
  /\ Len(files) >= 3
  /\ \E k \in 1..Len(files) : files[k].ext = ".XBT"
  /\ \E k \in 1..Len(files) : files[k].dir = "root/sub"
  /\ \E q \in DOMAIN prev : \A k \in 1..Len(files) : files[k] # q

(***************************************************************************)
(* Direction resolution (Spec).                                            *)
(***************************************************************************)
\* the outcome recorded by the iteration just taken
StepOutcome == outcomes'[Len(outcomes')]

\* the first 4 bytes of the file about to be processed
CurLead == Take(Bytes(fs[CurInput]), 4)

\* C21: direction resolution.  In Auto mode the direction of each file is
\* decided by its first 4 bytes, whatever its extension: the wrapper magic
\* gives a split, the payload magic a join, and a file with neither (or one
\* that cannot be read) is counted skipped and nothing is written for it; in
\* an explicit mode the requested direction is used for every file.  A file
\* counted converted has its output written under the extension of the
\* resolved direction.
C21_DirectionResolution ==
  [][AtFile =>
       /\ (conversion_type = "auto" /\ Readable(fs, CurInput)) =>
            /\ CurLead = TBX => StepOutcome.conv = "xbt_to_dds"
            /\ CurLead = DDS => StepOutcome.conv = "dds_to_xbt"
            /\ CurLead \notin {TBX, DDS} => StepOutcome.conv = "unknown"
       /\ (conversion_type = "auto" /\ ~Readable(fs, CurInput)) => StepOutcome.conv = "unknown"
       /\ conversion_type # "auto" => StepOutcome.conv = conversion_type
       /\ StepOutcome.conv = "unknown" => (CountedAsSkipped /\ fs' = fs)
       /\ (converted' = converted + 1 /\ StepOutcome.conv = "xbt_to_dds") =>
            (CurSplitOutput \in DOMAIN fs' /\ StartsWith(fs'[CurSplitOutput].data, DDS))
       /\ (converted' = converted + 1 /\ StepOutcome.conv = "dds_to_xbt") =>
            (CurJoinOutput \in DOMAIN fs' /\ fs'[CurJoinOutput] # fs[CurInput])]_vars

\* in Auto mode a file named .dds that holds a wrapped container was split,
\* and a file with neither magic was skipped
C21_Witness ==
  /\ conversion_type = "auto"
  /\ \E k \in 1..Len(outcomes) :
       /\ outcomes[k].input.ext = ".dds"
       /\ outcomes[k].conv = "xbt_to_dds"
       /\ outcomes[k].result = "converted"
  /\ \E k \in 1..Len(outcomes) :
       /\ outcomes[k].conv = "unknown"
       /\ outcomes[k].result = "skipped"
       /\ outcomes[k].input \in DOMAIN fs
       /\ Bytes(fs[outcomes[k].input]) = Junk

(***************************************************************************)
(* Failures of reads and copies (Spec).                                    *)
(***************************************************************************)
\* the iteration about to be taken reads its input: always in Auto mode
\* (detect_file_type), and in an explicit mode when the loop body reaches
\* the conversion
ReadAttempted ==
  \/ conversion_type = "auto"
  \/ ReachesOutputCheck /\ ~(Exists(fs, CurOutput) /\ ~overwrite_existing)

\* the file about to be processed is the staged name of a discovered wrapped
\* file whose copy was attempted and failed: the source cannot be read, and
\* no staged file stood in the way of the copy or overwrite is enabled
CopyFailed ==
  /\ CurInput.dir = ExtractDir
  /\ idx < Len(xbt_files)
  /\ xbt_files[idx + 1] \in unreadable
  /\ ~Collides(idx + 1)
  /\ (StagedPath(xbt_files[idx + 1]) \notin DOMAIN prev \/ overwrite_existing)

\* C22: no silent drops.  In a batch run a file whose read fails, and a
\* wrapped file whose staging copy failed, is counted in errors when the
\* Convert loop comes to it, not in converted or skipped.
C22_NoSilentDrops ==
  [][AtFile =>
       /\ (ReadAttempted /\ ~Readable(fs, CurInput)) => CountedAsError
       /\ CopyFailed => CountedAsError]_vars

(***************************************************************************)
(* The declared header size (SpecCodec).                                   *)
(***************************************************************************)
\* the container with the 4 bytes at offset 8 replaced by v
WithDeclaredSize(x, v) == [k \in 1..Len(x) |-> IF k \in 9..12 THEN v[k - 8] ELSE x[k]]

\* values of the field: the offset of the payload, the values of the
\* templates, zero, a large value, and the payload magic itself
DeclaredSizes(x) ==
  {<<Find(x, DDS), 0, 0, 0>>, <<32, 0, 0, 0>>, <<99, 0, 0, 0>>, <<0, 0, 0, 0>>,
   <<255, 255, 255, 127>>, DDS}

\* C23: the declared header size (u32 at offset 8) is never validated.  Two
\* valid wrapped containers that differ only in that field are split at the
\* same payload offset with the same outcome, the one whose field is the
\* computed split offset included: a mismatch between the declared size and
\* the offset never makes a split fail.
C23_DeclaredSizeNotValidated ==
  (cout.op = "split" /\ ValidWrapped(cin.data)) =>
    \A v \in DeclaredSizes(cin.data) :
      LET y == WithDeclaredSize(cin.data, v)
          r == split_container(y)
      IN  ValidWrapped(y) =>
            /\ r.ok = cout.ok
            /\ r.err = cout.err
            /\ Len(r.header_data) = Len(cout.header_data)
            /\ r.dds_data = cout.dds_data
            /\ WithDeclaredSize(r.header_data, <<0, 0, 0, 0>>)
                 = WithDeclaredSize(cout.header_data, <<0, 0, 0, 0>>)

\* a container whose declared size is not the offset of its payload has been
\* split at the payload
C23_Witness ==
  /\ cout.op = "split"
  /\ cout.ok
  /\ ValidWrapped(cin.data)
  /\ U32(cin.data, 8) # Len(cout.header_data)
  /\ Len(cout.header_data) = Find(cin.data, DDS)
  /\ StartsWith(cout.dds_data, DDS)

(***************************************************************************)
(* Termination of the batch run (FairSpec).                                *)
(***************************************************************************)
\* the run has returned: with its summary ("done"), or with False after the
\* report that no file was found ("failed")
Terminated == pc \in {"done", "failed"}

\* every entry of the list has been processed once, in the order of the list
ProcessedOnce ==
  /\ idx = Len(files_to_convert)
  /\ Len(outcomes) = Len(files_to_convert)
  /\ \A k \in 1..Len(outcomes) : outcomes[k].input = files_to_convert[k]

\* C24: termination.  Every batch run ends, and stays, in one of two
\* terminal states: completed with a summary, or ended with an error report;
\* when it completes, every entry of the list of files to convert has been
\* processed exactly once.
C24_Termination ==
  /\ <>[]Terminated
  /\ [](pc = "done" => ProcessedOnce)
  /\ [](pc = "failed" => outcomes = <<>>)

\* a run has completed after processing two files or more, one converted
\* and one not
C24_Witness ==
  /\ pc = "done"
  /\ Len(files_to_convert) >= 2
  /\ ProcessedOnce
  /\ converted >= 1
  /\ converted < Len(files_to_convert)

(***************************************************************************)
(* Failed validations (SpecSingle).                                        *)
(***************************************************************************)
\* the direction the single conversion resolved
SingleConv == outcomes[1].conv

\* the bytes the join read as its payload: those of the normalized file when
\* the normalization step gave one, else those of the selected file
UsedPayload ==
  IF fix_dds_format /\ outcomes[1].norm.fixed
  THEN outcomes[1].norm.data
  ELSE Bytes(prev[file_path])

SelectedSidecar == WithExt(file_path, ".xml")

\* the split was given bytes without the wrapper magic or without any
\* payload magic
SplitInvalid ==
  /\ SingleConv = "xbt_to_dds"
  /\ LET data == Bytes(prev[file_path])
     IN  ~StartsWith(data, TBX) \/ Find(data, DDS) = -1

\* the join was given a payload without its magic, or its sidecar is
\* missing, is no document, has another root, or has a raw field the code
\* rejects
JoinInvalid ==
  /\ SingleConv = "dds_to_xbt"
  /\ \/ ~StartsWith(UsedPayload, DDS)
     \/ SelectedSidecar \notin DOMAIN prev
     \/ prev[SelectedSidecar].kind # "xml"
     \/ ~ProperSidecar(prev[SelectedSidecar].doc)
     \/ RawRejected(prev[SelectedSidecar].doc)

\* C25: validation failures have no file effect.  A split of an input that
\* lacks the wrapper magic or holds no payload magic, and a join of a payload
\* that lacks its magic or whose sidecar is missing or malformed, fails, and
\* the files afterwards are those before: no file is created and none (the
\* payload, the sidecar, an existing output) is modified.
C25_ValidationFailureNoEffect ==
  (pc = "single_done" /\ (SplitInvalid \/ JoinInvalid)) =>
    /\ outcomes[1].result = "errors"
    /\ fs = prev

\* a join of a good payload with a sidecar that is there but malformed has
\* failed and left the wrapped file of an earlier conversion as it was
C25_Witness ==
  /\ pc = "single_done"
  /\ JoinInvalid
  /\ StartsWith(UsedPayload, DDS)
  /\ SelectedSidecar \in DOMAIN prev
  /\ WithExt(file_path, ".xbt") \in DOMAIN fs
  /\ fs[WithExt(file_path, ".xbt")] = OldFile
  /\ outcomes[1].result = "errors"

(***************************************************************************)
(* The input of a single conversion (SpecSingle).                          *)
(***************************************************************************)
\* a single conversion of an existing file was run in a resolved direction
SingleRan == pc = "single_done" /\ SingleConv \in {"xbt_to_dds", "dds_to_xbt"}

\* the extensions of the files a conversion writes next to its input: the
\* payload and the sidecar for a split, the wrapped file for a join
WrittenExts(conv) == IF conv = "xbt_to_dds" THEN {".dds", ".xml"} ELSE {".xbt"}

FirstHeader == Take(cin.data, Find(cin.data, DDS))

\* C27: reverse round trip.  For the sidecar written by the split of a valid
\* wrapped container with header h and any payload p that starts with the
\* payload magic, the split of the join of p and the sidecar succeeds and
\* returns the payload p and the header h; the joined bytes are h followed by
\* p, and the payload magic does not occur in them before offset len(h).
C27_ReverseRoundTrip ==
  (cout.op = "resplit" /\ ValidWrapped(cin.data)) =>
    /\ cout.ok
    /\ cout.out = FirstHeader \o cout.payload
    /\ cout.header_data = FirstHeader
    /\ cout.dds_data = cout.payload
    /\ Find(cout.out, DDS) = Len(FirstHeader)
    /\ cout.doc.raw = Hex(FirstHeader)

\* a payload that holds the payload magic twice, joined to the sidecar of a
\* container with another payload, has been split off again
C27_Witness ==
  /\ cout.op = "resplit"
  /\ cout.ok
  /\ ValidWrapped(cin.data)
  /\ cout.payload # Drop(cin.data, Find(cin.data, DDS))
  /\ Find(Drop(cout.payload, 1), DDS) >= 0
  /\ cout.dds_data = cout.payload

(***************************************************************************)
(* A second batch run.  The tree a first run leaves is computed with the   *)
(* operators of the run's steps: the copy loop over the discovered wrapped *)
(* files, then the Convert loop over the list of files to convert          *)
(* (normalization disabled).  SpecRerun is a batch run that starts from    *)
(* such a tree, with the same direction and overwrite disabled.            *)
(***************************************************************************)
\* the value of the one element of a set of one element
TheOne(S) == CHOOSE x \in S : TRUE

RECURSIVE StageAll(_, _, _)
StageAll(f, xbts, overwrite) ==
  IF xbts = <<>> THEN f
  ELSE TheOne({StageAll(g, rest, overwrite) :
                 g \in {stage_file(f, Head(xbts), overwrite)}, rest \in {Tail(xbts)}})

RECURSIVE ConvertAll(_, _, _, _)
ConvertAll(f, todo, ct, overwrite) ==
  IF todo = <<>> THEN f
  ELSE TheOne({ConvertAll(g, rest, ct, overwrite) :
                 g \in {process_file(f, Head(todo), ct, overwrite, FALSE, NoFix).fs},
                 rest \in {Tail(todo)}})

\* the tree after convert_batch has run on the tree f
AfterBatch(f, ct, overwrite) ==
  TheOne({IF found = <<>> THEN f
          ELSE TheOne({ConvertAll(staged, todo, ct, overwrite) :
                         staged \in {StageAll(f, SelectSeq(found, LAMBDA q : LowerExt(q.ext) = ".xbt"),
                                              overwrite)},
                         todo \in {FilesToConvert(ct,
                                                  SelectSeq(found, LAMBDA q : LowerExt(q.ext) = ".xbt"),
                                                  SelectSeq(found, LAMBDA q : LowerExt(q.ext) = ".dds"))}}) :
            found \in {find_files_in_folder_with_progress(f, ExtensionsFor(ct))}})

RerunTrees == AccountingTrees \cup FaultyTrees \cup CollisionTrees

InitRerun ==
  /\ unreadable \in {{}, {P("root", "a", ".xbt")}, {P("root", "d", ".dds")}}
  /\ conversion_type \in ConversionTypes
  /\ overwrite_existing = FALSE
  /\ fix_dds_format = FALSE
  /\ \E tree \in RerunTrees, first_overwrite \in BOOLEAN :
       fs = AfterBatch(tree, conversion_type, first_overwrite)
  /\ IdleRun

SpecRerun == InitRerun /\ [][Next]_vars

\* the files of the staging and output directories
WorkFiles(f) == {q \in DOMAIN f : q.dir \in {ExtractDir, ConvertDir}}

\* C28: re-run idempotence.  A second batch run on the unchanged root, with
\* the same direction and overwrite disabled, reports converted = 0, and at
\* every point of it the staging and output directories hold the files the
\* first run left, byte for byte, and no other file.
C28_RerunIdempotent ==
  /\ pc \in {"convert", "done"} => converted = 0
  /\ WorkFiles(fs) = WorkFiles(prev)
  /\ \A q \in WorkFiles(prev) : fs[q] = prev[q]

\* a second run has ended: it skipped a split and a join whose outputs the
\* first run had written, and counted the failure of the first run again
C28_Witness ==
  /\ pc = "done"
  /\ converted = 0
  /\ errors >= 1
  /\ \E k \in 1..Len(outcomes) :
       /\ outcomes[k].conv = "xbt_to_dds"
       /\ outcomes[k].reason = "output_exists"
       /\ P(ConvertDir, outcomes[k].input.base, ".xml") \in DOMAIN fs
  /\ \E k \in 1..Len(outcomes) :
       /\ outcomes[k].conv = "dds_to_xbt"
       /\ outcomes[k].reason = "output_exists"
       /\ StartsWith(fs[P(ConvertDir, outcomes[k].input.base, ".xbt")].data, TBX)

(***************************************************************************)
(* The frame of a batch run (Spec).                                        *)
(***************************************************************************)
\* the files under the source root
RootFiles(f) == {q \in DOMAIN f : q.dir \in RootDirs}

\* C29: batch frame.  At every point of a batch run, whatever the direction
\* and the overwrite setting, the files under the source root are those the
\* run started from, with the same content: none is created, modified or
\* deleted; every file created or changed lies in the staging directory or
\* in the output directory.
C29_BatchFrame ==
  /\ RootFiles(fs) = RootFiles(prev)
  /\ \A q \in RootFiles(prev) : fs[q] = prev[q]
  /\ \A q \in DOMAIN fs :
       (q \notin DOMAIN prev \/ fs[q] # prev[q]) => q.dir \in {ExtractDir, ConvertDir}

\* a run with overwrite enabled has ended after a split of a staged copy, a
\* split of a wrapped container found under the root with the name of a
\* payload, and a join; it has written to both working directories
C29_Witness ==
  /\ pc = "done"
  /\ overwrite_existing
  /\ \E k \in 1..Len(outcomes) :
       /\ outcomes[k].input.dir \in RootDirs
       /\ outcomes[k].conv = "xbt_to_dds"
       /\ outcomes[k].result = "converted"
       /\ WithExt(outcomes[k].input, ".xml") \in DOMAIN fs
  /\ \E k \in 1..Len(outcomes) : IsStaged(k) /\ outcomes[k].result = "converted"
  /\ \E q \in WorkFiles(fs) : q.dir = ExtractDir /\ q \notin DOMAIN prev
  /\ \E q \in WorkFiles(fs) : q.dir = ConvertDir /\ q \in DOMAIN prev /\ fs[q] # prev[q]

(***************************************************************************)
(* The source of a batch output (Spec).                                    *)
(***************************************************************************)
\* the iteration about to be taken is on the staged name of a discovered
\* wrapped file, and counts it converted
StagedConverted ==
  /\ AtFile
  /\ CurInput.dir = ExtractDir
  /\ idx < Len(xbt_files)
  /\ converted' = converted + 1

\* the discovered wrapped file whose staged name is about to be processed
CurSource == xbt_files[idx + 1]

\* the output directory holds, after the step, the payload and the header
\* of the bytes data
OutputsAreSplitOf(data) ==
  LET n == Find(data, DDS)
  IN  /\ n >= 0
      /\ CurSplitOutput \in DOMAIN fs'
      /\ fs'[CurSplitOutput] = BinFile(Drop(data, n))
      /\ CurSplitSidecar \in DOMAIN fs'
      /\ fs'[CurSplitSidecar].kind = "xml"
      /\ fs'[CurSplitSidecar].doc.raw = Hex(Take(data, n))

\* C30: batch output reflects the discovered source.  For every discovered
\* wrapped file counted converted, the payload written to the output
\* directory is the file's bytes from the first payload magic on and the
\* sidecar written holds the file's header bytes, also when the staging
\* directory holds files of an earlier run or discovered files share a name.
C30_OutputReflectsSource ==
  [][StagedConverted => OutputsAreSplitOf(Bytes(prev[CurSource]))]_vars

====
